---- MODULE Spec2Model ----
(***************************************************************************)
(* ipybox-server: the Container Manager (src/ipybox/server.py) and the MCP *)
(* stdio<->HTTP proxy (src/ipybox/mcp_proxy.py).                           *)
(*                                                                         *)
(* Scheduling.  The server is one asyncio event loop.  A coroutine runs    *)
(* without interruption until it awaits something that is not ready.       *)
(* Every `async with self.lock` body of ContainerManager is free of awaits,*)
(* so the lock is free whenever a task is scheduled, and acquiring a free  *)
(* asyncio.Lock returns without suspending.  The suspension points of the  *)
(* manager are therefore container.run(), container.kill(), the executor   *)
(* and resource RPCs, reading the HTTP body and asyncio.sleep; an action   *)
(* of this module is the code that runs between two of them.               *)
(***************************************************************************)
EXTENDS Integers, Sequences, FiniteSets, TLC

\* ---------------------------------------------------------------- bounds
MaxContainers == 2      \* containers created in one run
MaxExecutions == 1      \* executions submitted in one run
MaxTime == 2            \* last value of the clock

MaxSessions == 2        \* MCPSession objects constructed in one run
MaxStarts == 2          \* start() calls on one session
MaxFrames == 2          \* frames passed to send_message on one session
MaxCalls == 1           \* mcp_proxy_endpoint calls in flight at a time
MaxBatch == 2           \* requests in one JSON-RPC batch
MaxNotes == 1           \* notifications a child sends on its own

\* tighter bounds of the specifications that add the clock, the reapers and
\* destroy (SpecProxy) or every request shape (SpecHandle) to the proxy
MaxServed == 1          \* containers created
MaxServedSessions == 1  \* MCPSession objects constructed
MaxTasks == 2           \* tasks that contend for ContainerManager.lock
MaxProxyFrames == 1     \* frames sent on one session, in SpecProxy

\* IPYBOX_MAX_IDLE_TIME, in clock ticks
CONTAINER_MAX_IDLE_TIME == 1

\* the ids uuid4 mints, in the order it mints them
ContainerIds == 1..MaxContainers
ExecutionIds == 1..MaxExecutions

None == "None"
NoTime == -1

VARIABLES
    containers,       \* ContainerManager.containers: ids that have a handle
    container_info,   \* ContainerManager.container_info: id -> ContainerInfo
    executions,       \* ContainerManager.executions: execution id -> record
    now,              \* datetime.now()
    nextContainerId,  \* next uuid4 of create_container
    nextExecutionId,  \* next uuid4 of execute_code
    creating,         \* ids whose create_container awaits container.run()
    executing,        \* execution ids whose handler awaits the executor
    killing,          \* destroy_container calls awaiting container.kill()
    killCount,        \* runtime adapter: kill() calls received per container
    reaper,           \* the _cleanup_containers task
    phase,            \* lifespan: "serving", "shutdown", "done"
    shutdownRest,     \* lifespan shutdown: ids still to destroy
    destroyLog,       \* per id, the outcomes of the destroy_container calls
                      \* that have ended: "True", "False", "RuntimeStop"
                      \* (and "ShutdownError", logged by lifespan)
    sess,             \* the MCPSession objects, in order of construction
    sessions,         \* MCPProxy.sessions: session id -> MCPSession object
    proxyCalls,       \* mcp_proxy_endpoint calls in flight
    sessionReaper,    \* the _cleanup_idle_sessions task
    proxyStop,        \* the call of MCPProxy.stop
    lastResponse,     \* what the last mcp_proxy_endpoint call that ended
                      \* answered
    API_KEY,          \* os.environ.get("IPYBOX_API_KEY", "")
    lastRequest,      \* the request FastAPI has resolved the dependencies
                      \* of last: endpoint, X-API-Key header, outcome
    lock,             \* ContainerManager.lock: the task that holds it
    lockOps           \* per task, the ContainerManager operation it runs
                      \* and how far it is

lockVars == <<lock, lockOps>>

authVars == <<API_KEY, lastRequest, lockVars>>

cmVars == <<containers, container_info, executions, now, nextContainerId,
            nextExecutionId, creating, executing, killing, killCount,
            reaper, phase, shutdownRest, destroyLog, authVars>>

registries == <<containers, container_info, executions>>

proxyVars == <<sess, sessions, proxyCalls, sessionReaper, proxyStop,
               lastResponse, authVars>>

vars == <<containers, container_info, executions, now, nextContainerId,
          nextExecutionId, creating, executing, killing, killCount,
          reaper, phase, shutdownRest, destroyLog, sess, sessions,
          proxyCalls, sessionReaper, proxyStop, lastResponse, API_KEY,
          lastRequest, lock, lockOps>>

\* ------------------------------------------------------- pure helpers
Min(S) == CHOOSE x \in S : \A y \in S : x <= y

RECURSIVE SortedSeq(_)
\* list(self.containers.keys()): dicts keep insertion order, and ids are
\* inserted in the order they were minted
SortedSeq(S) ==
    IF S = {} THEN <<>> ELSE <<Min(S)>> \o SortedSeq(S \ {Min(S)})

Remove(f, k) == [x \in DOMAIN f \ {k} |-> f[x]]

Put(f, k, v) == [x \in DOMAIN f \cup {k} |-> IF x = k THEN v ELSE f[x]]

NewContainerInfo(t) ==
    [created_at |-> t, last_used_at |-> t, status |-> "running"]

NewExecution(id, t) ==
    [container_id |-> id, status |-> "running", created_at |-> t,
     completed_at |-> NoTime, error |-> None]

\* mutant: the usage update writes a time before the call
TouchedBack(info, id, t) ==
    IF id \in DOMAIN info
    THEN [info EXCEPT ![id].last_used_at = t - 1]
    ELSE info

\* update_container_usage
Touched(info, id, t) ==
    IF id \in DOMAIN info
    THEN [info EXCEPT ![id].last_used_at = t]
    ELSE info

\* mutant: the handle is read with get, not popped
PopContainerKeeps(conts, id) == conts

\* destroy_container, the part under the lock: pop the handle, pop the
\* info record, drop the executions of the container
PopContainer(conts, id) == conts \ {id}

\* mutant: the info record is kept
PopInfoKeeps(info, id) == info

PopInfo(info, id) == Remove(info, id)

\* mutant: only the executions still running are dropped
PurgeRunningExecutions(execs, id) ==
    [e \in {x \in DOMAIN execs : ~(/\ execs[x].container_id = id
                                   /\ execs[x].status = "running")}
       |-> execs[e]]

PurgeExecutions(execs, id) ==
    [e \in {x \in DOMAIN execs : execs[x].container_id # id} |-> execs[e]]

\* mutant: complete_execution that ignores its error argument
CompletedWhatever(execs, e, error, t) ==
    IF e \in DOMAIN execs
    THEN [execs EXCEPT ![e].status = "completed", ![e].completed_at = t]
    ELSE execs

\* complete_execution
Completed(execs, e, error, t) ==
    IF e \in DOMAIN execs
    THEN [execs EXCEPT ![e].status = IF error \in {None, ""}
                                     THEN "completed" ELSE "error",
                       ![e].completed_at = t,
                       ![e].error = IF error \in {None, ""}
                                    THEN @ ELSE error]
    ELSE execs

\* HTTPException(404), as a value
NotFound == [status |-> "NotFound"]

\* what the read-only operations return
get_container_info(id) ==
    IF id \in DOMAIN container_info THEN container_info[id] ELSE NotFound

get_execution_status(e) ==
    IF e \in DOMAIN executions THEN executions[e] ELSE NotFound

\* the DELETE /containers/{id} endpoint: the value destroy_container
\* returns is dropped, the HTTPException it raises becomes the response
DeleteStatus(result) == IF result = "RuntimeStop" THEN 500 ELSE 200

\* the ids a client can name: the ones create_container has returned, and
\* made-up ones; the id of a create that failed was never registered and
\* stands for a made-up id
KnownIds == (1..(nextContainerId - 1)) \ creating

KnownExecutionIds == 1..(nextExecutionId - 1)

Logged(log, id, result) == [log EXCEPT ![id] = @ \cup {result}]

Serving == phase = "serving"

\* the reaper between two passes; snapshot, idleAtStart and reaped record
\* what a pass in progress started from and has destroyed so far
ReaperAsleep ==
    [pc |-> "sleep", threshold |-> 0, rest |-> <<>>, cur |-> 0,
     snapshot |-> {}, idleAtStart |-> {}, reaped |-> {}]

\* no request has arrived yet
NoRequest == [endpoint |-> "", api_key |-> None, status |-> 0]

\* IPYBOX_API_KEY is not set: authentication is disabled
AuthOff ==
    /\ API_KEY = ""
    /\ lastRequest = NoRequest

\* tasks that call the ContainerManager: request handlers, the reaper
LockTasks == 1..MaxTasks

\* asyncio.Lock(): not held
Unlocked == 0

\* a task that runs no ContainerManager operation
NoOp == [op |-> "", found |-> FALSE, pc |-> 0]

\* ---------------------------------------------------------------- Init
CMInit ==
    /\ lock = Unlocked
    /\ lockOps = [t \in LockTasks |-> NoOp]
    /\ containers = {}
    /\ container_info = <<>>
    /\ executions = <<>>
    /\ now = 0
    /\ nextContainerId = 1
    /\ nextExecutionId = 1
    /\ creating = {}
    /\ executing = {}
    /\ killing = {}
    /\ killCount = [id \in ContainerIds |-> 0]
    /\ reaper = ReaperAsleep
    /\ phase = "serving"
    /\ shutdownRest = <<>>
    /\ destroyLog = [id \in ContainerIds |-> {}]

\* no proxy call has ended yet
NoResponse ==
    [status |-> 0, rid |-> 0, n |-> 0, yielded |-> <<>>,
     code |-> 0, eid |-> 0, refused |-> ""]

\* MCPProxy.stop has not been called; waits are the session.stop() tasks
\* its gather awaits
NotStopping == [pc |-> "idle", waits |-> {}]

\* the session reaper between two passes
SessionReaperAsleep == [pc |-> "sleep", rest |-> <<>>, cur |-> 0, p |-> 0]

ProxyInit ==
    /\ sess = <<>>
    /\ sessions = <<>>
    /\ proxyCalls = {}
    /\ sessionReaper = SessionReaperAsleep
    /\ proxyStop = NotStopping
    /\ lastResponse = NoResponse

\* time passes
Tick ==
    /\ now < MaxTime
    /\ now' = now + 1
    /\ UNCHANGED <<containers, container_info, executions, nextContainerId,
                   nextExecutionId, creating, executing, killing, killCount,
                   reaper, phase, shutdownRest, destroyLog>>
    /\ UNCHANGED proxyVars

\* ------------------------------------------------------ create_container
\* mutant: the records are registered before container.run() is awaited
CreateBeginRegisters ==
    /\ Serving
    /\ nextContainerId <= MaxContainers
    /\ creating' = creating \cup {nextContainerId}
    /\ containers' = containers \cup {nextContainerId}
    /\ container_info' = Put(container_info, nextContainerId,
                             NewContainerInfo(now))
    /\ nextContainerId' = nextContainerId + 1
    /\ UNCHANGED <<executions, now, nextExecutionId, executing, killing,
                   killCount, reaper, phase, shutdownRest, destroyLog>>
    /\ UNCHANGED proxyVars

\* POST /containers: mint the id, build the container, await container.run()
CreateBegin ==
    /\ Serving
    /\ nextContainerId <= MaxContainers
    /\ creating' = creating \cup {nextContainerId}
    /\ nextContainerId' = nextContainerId + 1
    /\ UNCHANGED <<containers, container_info, executions, now,
                   nextExecutionId, executing, killing, killCount, reaper,
                   phase, shutdownRest, destroyLog>>
    /\ UNCHANGED proxyVars

\* container.run() returned: register the handle and the info record
CreateRunOk(id) ==
    /\ id \in creating
    /\ creating' = creating \ {id}
    /\ containers' = containers \cup {id}
    /\ container_info' = Put(container_info, id, NewContainerInfo(now))
    /\ UNCHANGED <<executions, now, nextContainerId, nextExecutionId,
                   executing, killing, killCount, reaper, phase,
                   shutdownRest, destroyLog>>
    /\ UNCHANGED proxyVars

\* container.run() raised: the except branch raises HTTPException(500)
CreateRunFail(id) ==
    /\ id \in creating
    /\ creating' = creating \ {id}
    /\ UNCHANGED <<containers, container_info, executions, now,
                   nextContainerId, nextExecutionId, executing, killing,
                   killCount, reaper, phase, shutdownRest, destroyLog>>
    /\ UNCHANGED proxyVars

\* ------------------------------------------ get_container and the readers
\* get_container(id): the handle, or HTTPException(404)
get_container(id) == IF id \in containers THEN [handle |-> id] ELSE NotFound

\* any endpoint that starts with get_container(id) and then talks to the
\* container only (firewall, files, directories, mcp): on a handle the
\* usage is updated, on 404 the endpoint ends
Get(id) ==
    /\ Serving
    /\ id \in KnownIds
    /\ container_info' = IF get_container(id) = NotFound
                         THEN container_info
                         ELSE Touched(container_info, id, now)
    /\ UNCHANGED <<containers, executions, now, nextContainerId,
                   nextExecutionId, creating, executing, killing, killCount,
                   reaper, phase, shutdownRest, destroyLog>>
    /\ UNCHANGED proxyVars

\* mutant: the info endpoint goes through update_container_usage
InfoTouches(id) ==
    /\ Serving
    /\ id \in KnownIds
    /\ container_info' = Touched(container_info, id, now)
    /\ UNCHANGED <<containers, executions, now, nextContainerId,
                   nextExecutionId, creating, executing, killing, killCount,
                   reaper, phase, shutdownRest, destroyLog>>
    /\ UNCHANGED proxyVars

\* GET /containers/{id}: get_container_info reads the record
Info(id) ==
    /\ Serving
    /\ id \in KnownIds
    /\ UNCHANGED <<containers, container_info, executions, now,
                   nextContainerId, nextExecutionId, creating, executing,
                   killing, killCount, reaper, phase, shutdownRest,
                   destroyLog>>
    /\ UNCHANGED proxyVars

\* GET /containers: list_containers reads the records
List ==
    /\ Serving
    /\ UNCHANGED <<containers, container_info, executions, now,
                   nextContainerId, nextExecutionId, creating, executing,
                   killing, killCount, reaper, phase, shutdownRest,
                   destroyLog>>
    /\ UNCHANGED proxyVars

\* ------------------------------------------------------------ executions
\* mutant: register_execution runs whether or not get_container found the
\* container
ExecuteBeginRegistersAnyway(id) ==
    /\ Serving
    /\ id \in KnownIds
    /\ nextExecutionId <= MaxExecutions
    /\ container_info' = IF get_container(id) = NotFound
                         THEN container_info
                         ELSE Touched(container_info, id, now)
    /\ executions' = Put(executions, nextExecutionId, NewExecution(id, now))
    /\ executing' = executing \cup {nextExecutionId}
    /\ nextExecutionId' = nextExecutionId + 1
    /\ UNCHANGED <<containers, now, nextContainerId, creating, killing,
                   killCount, reaper, phase, shutdownRest, destroyLog>>
    /\ UNCHANGED proxyVars

\* POST /containers/{id}/execute[/stream] up to the executor call:
\* get_container, mint the execution id, register_execution
ExecuteBegin(id) ==
    /\ Serving
    /\ id \in KnownIds
    /\ nextExecutionId <= MaxExecutions
    /\ IF get_container(id) = NotFound
       THEN UNCHANGED <<container_info, executions, executing,
                        nextExecutionId>>
       ELSE /\ container_info' = Touched(container_info, id, now)
            /\ executions' = Put(executions, nextExecutionId,
                                 NewExecution(id, now))
            /\ executing' = executing \cup {nextExecutionId}
            /\ nextExecutionId' = nextExecutionId + 1
    /\ UNCHANGED <<containers, now, nextContainerId, creating, killing,
                   killCount, reaper, phase, shutdownRest, destroyLog>>
    /\ UNCHANGED proxyVars

\* how the executor call can end: a result (None), an ExecutionError, a
\* timeout, an exception whose message is empty
ExecutorOutcomes == {None, "ExecutionError", "Execution timed out", ""}

\* the executor call ended: complete_execution(e) or
\* complete_execution(e, error=...)
ExecuteEnd(e, error) ==
    /\ e \in executing
    /\ executing' = executing \ {e}
    /\ executions' = Completed(executions, e, error, now)
    /\ UNCHANGED <<containers, container_info, now, nextContainerId,
                   nextExecutionId, creating, killing, killCount, reaper,
                   phase, shutdownRest, destroyLog>>
    /\ UNCHANGED proxyVars

\* GET /executions/{id}: get_execution_status reads the record
Status(e) ==
    /\ Serving
    /\ e \in KnownExecutionIds
    /\ UNCHANGED <<containers, container_info, executions, now,
                   nextContainerId, nextExecutionId, creating, executing,
                   killing, killCount, reaper, phase, shutdownRest,
                   destroyLog>>
    /\ UNCHANGED proxyVars

\* ----------------------------------------------------- destroy_container
\* the registries and the log while a task runs from one candidate to the
\* next without suspending
Regs(conts, info, execs, log) ==
    [conts |-> conts, info |-> info, execs |-> execs, log |-> log]

\* mutant: the lock section pops the handle only; the info record and
\* the executions stay
DestroyUnderLockHandleOnly(st, id) ==
    [st EXCEPT !.conts = PopContainer(st.conts, id)]

\* destroy_container(id) under the lock
DestroyUnderLock(st, id) ==
    [st EXCEPT !.conts = PopContainer(st.conts, id),
               !.info = PopInfo(st.info, id),
               !.execs = PurgeExecutions(st.execs, id)]

\* destroy_container(id) found no handle: it returns False
DestroyNoHandle(st, id) ==
    [DestroyUnderLock(st, id) EXCEPT !.log = Logged(@, id, "False")]

\* DELETE /containers/{id}: pop under the lock; with a handle, await
\* container.kill(); without one, return False
DestroyBegin(id) ==
    /\ Serving
    /\ id \in KnownIds
    /\ LET st == IF id \in containers
                 THEN DestroyUnderLock(
                          Regs(containers, container_info, executions,
                               destroyLog), id)
                 ELSE DestroyNoHandle(
                          Regs(containers, container_info, executions,
                               destroyLog), id)
       IN  /\ containers' = st.conts
           /\ container_info' = st.info
           /\ executions' = st.execs
           /\ destroyLog' = st.log
    /\ IF id \in containers
       THEN /\ killCount' = [killCount EXCEPT ![id] = @ + 1]
            /\ killing' = killing \cup {[id |-> id, by |-> "http"]}
       ELSE UNCHANGED <<killCount, killing>>
    /\ UNCHANGED <<now, nextContainerId, nextExecutionId, creating,
                   executing, reaper, phase, shutdownRest>>
    /\ UNCHANGED proxyVars

\* container.kill() returned: destroy_container returns True
KillOk(id) ==
    /\ [id |-> id, by |-> "http"] \in killing
    /\ killing' = killing \ {[id |-> id, by |-> "http"]}
    /\ destroyLog' = Logged(destroyLog, id, "True")
    /\ UNCHANGED <<containers, container_info, executions, now,
                   nextContainerId, nextExecutionId, creating, executing,
                   killCount, reaper, phase, shutdownRest>>
    /\ UNCHANGED proxyVars

\* mutant: a failed kill puts the handle and the info record back
KillFailRestores(id) ==
    /\ [id |-> id, by |-> "http"] \in killing
    /\ killing' = killing \ {[id |-> id, by |-> "http"]}
    /\ destroyLog' = Logged(destroyLog, id, "RuntimeStop")
    /\ containers' = containers \cup {id}
    /\ container_info' = Put(container_info, id, NewContainerInfo(now))
    /\ UNCHANGED <<executions, now, nextContainerId, nextExecutionId,
                   creating, executing, killCount, reaper, phase,
                   shutdownRest>>
    /\ UNCHANGED proxyVars

\* container.kill() raised: destroy_container raises HTTPException(500)
KillFail(id) ==
    /\ [id |-> id, by |-> "http"] \in killing
    /\ killing' = killing \ {[id |-> id, by |-> "http"]}
    /\ destroyLog' = Logged(destroyLog, id, "RuntimeStop")
    /\ UNCHANGED <<containers, container_info, executions, now,
                   nextContainerId, nextExecutionId, creating, executing,
                   killCount, reaper, phase, shutdownRest>>
    /\ UNCHANGED proxyVars

\* ------------------------------------------------- cleanup_idle_containers
IsIdle(info, id, threshold) ==
    /\ id \in DOMAIN info
    /\ info[id].last_used_at < threshold

RECURSIVE ReaperScan(_, _, _)
\* the for loop of cleanup_idle_containers from candidate Head(cands) up to
\* the next container.kill(): a candidate without info record raises 404
\* (caught), one that is not idle is skipped, an idle one is destroyed
ReaperScan(st, cands, threshold) ==
    IF cands = <<>>
    THEN [st |-> st, kill |-> 0, rest |-> <<>>]
    ELSE LET id == Head(cands) IN
         IF ~IsIdle(st.info, id, threshold)
         THEN ReaperScan(st, Tail(cands), threshold)
         ELSE IF id \in st.conts
              THEN [st |-> DestroyUnderLock(st, id), kill |-> id,
                    rest |-> Tail(cands)]
              ELSE ReaperScan(DestroyNoHandle(st, id), Tail(cands),
                              threshold)

\* the reaper goes on from `cands`: to the next kill, or to the end of the
\* pass and back to sleep; `kl` are the other kills in flight
ReaperContinue(st, cands, threshold, pass, kl) ==
    LET r == ReaperScan(st, cands, threshold) IN
    /\ containers' = r.st.conts
    /\ container_info' = r.st.info
    /\ executions' = r.st.execs
    /\ destroyLog' = r.st.log
    /\ IF r.kill = 0
       THEN /\ reaper' = ReaperAsleep
            /\ killing' = kl
            /\ UNCHANGED killCount
       ELSE /\ reaper' = [pass EXCEPT !.pc = "kill", !.cur = r.kill,
                                      !.rest = r.rest,
                                      !.reaped = @ \cup {r.kill}]
            /\ killCount' = [killCount EXCEPT ![r.kill] = @ + 1]
            /\ killing' = kl \cup {[id |-> r.kill, by |-> "reaper"]}

\* the records of `conts` that are idle at `threshold`
IdleSet(conts, info, threshold) ==
    {id \in conts : IsIdle(info, id, threshold)}

\* asyncio.sleep(CONTAINER_CLEANUP_INTERVAL) is over: a pass begins
ReaperWake ==
    /\ Serving
    /\ reaper.pc = "sleep"
    /\ LET threshold == now - CONTAINER_MAX_IDLE_TIME
           pass == [reaper EXCEPT
                      !.threshold = threshold,
                      !.snapshot = containers,
                      !.idleAtStart =
                          IdleSet(containers, container_info, threshold),
                      !.reaped = {}]
       IN  ReaperContinue(
               Regs(containers, container_info, executions, destroyLog),
               SortedSeq(containers), threshold, pass, killing)
    /\ UNCHANGED <<now, nextContainerId, nextExecutionId, creating,
                   executing, phase, shutdownRest>>
    /\ UNCHANGED proxyVars

\* mutant: the try/except is around the loop, so a kill that raises ends
\* the pass
ReaperKillEndAborts(ok) ==
    /\ reaper.pc = "kill"
    /\ ReaperContinue(
           Regs(containers, container_info, executions,
                Logged(destroyLog, reaper.cur,
                       IF ok THEN "True" ELSE "RuntimeStop")),
           IF ok THEN reaper.rest ELSE <<>>, reaper.threshold, reaper,
           killing \ {[id |-> reaper.cur, by |-> "reaper"]})
    /\ UNCHANGED <<now, nextContainerId, nextExecutionId, creating,
                   executing, phase, shutdownRest>>
    /\ UNCHANGED proxyVars

\* the reaper's container.kill() ended, by returning (ok) or by raising
\* (the HTTPException is caught and logged); the loop goes on
ReaperKillEnd(ok) ==
    /\ reaper.pc = "kill"
    /\ ReaperContinue(
           Regs(containers, container_info, executions,
                Logged(destroyLog, reaper.cur,
                       IF ok THEN "True" ELSE "RuntimeStop")),
           reaper.rest, reaper.threshold, reaper,
           killing \ {[id |-> reaper.cur, by |-> "reaper"]})
    /\ UNCHANGED <<now, nextContainerId, nextExecutionId, creating,
                   executing, phase, shutdownRest>>
    /\ UNCHANGED proxyVars

\* ------------------------------------------------------ lifespan shutdown
RECURSIVE ShutdownScan(_, _)
\* the for loop of the shutdown from candidate Head(cands) up to the next
\* container.kill()
ShutdownScan(st, cands) ==
    IF cands = <<>>
    THEN [st |-> st, kill |-> 0, rest |-> <<>>]
    ELSE LET id == Head(cands) IN
         IF id \in st.conts
         THEN [st |-> DestroyUnderLock(st, id), kill |-> id,
               rest |-> Tail(cands)]
         ELSE ShutdownScan(DestroyNoHandle(st, id), Tail(cands))

ShutdownContinue(st, cands, kl) ==
    LET r == ShutdownScan(st, cands) IN
    /\ containers' = r.st.conts
    /\ container_info' = r.st.info
    /\ executions' = r.st.execs
    /\ destroyLog' = r.st.log
    /\ shutdownRest' = r.rest
    /\ IF r.kill = 0
       THEN /\ phase' = "done"
            /\ killing' = kl
            /\ UNCHANGED killCount
       ELSE /\ phase' = "shutdown"
            /\ killCount' = [killCount EXCEPT ![r.kill] = @ + 1]
            /\ killing' = kl \cup {[id |-> r.kill, by |-> "lifespan"]}

\* the server has answered its requests and runs the shutdown half of
\* lifespan: stop_cleanup_task cancels the reaper (a kill it awaits is
\* abandoned), then every registered container is destroyed
ShutdownBegin ==
    /\ Serving
    /\ creating = {}
    /\ executing = {}
    /\ \A k \in killing : k.by = "reaper"
    /\ reaper' = [ReaperAsleep EXCEPT !.pc = "stopped"]
    /\ ShutdownContinue(
           Regs(containers, container_info, executions, destroyLog),
           SortedSeq(containers), {})
    /\ UNCHANGED <<now, nextContainerId, nextExecutionId, creating,
                   executing>>
    /\ UNCHANGED proxyVars

\* the log after the destroy_container(id) of the shutdown has ended: a
\* call that raised is logged by lifespan ("ShutdownError")
ShutdownLogged(log, id, ok) ==
    IF ok THEN Logged(log, id, "True")
    ELSE Logged(Logged(log, id, "RuntimeStop"), id, "ShutdownError")

\* mutant: the try/except is around the loop, so a kill that raises ends
\* the shutdown loop
ShutdownKillEndAborts(ok) ==
    /\ phase = "shutdown"
    /\ \E k \in killing :
         /\ k.by = "lifespan"
         /\ ShutdownContinue(
                Regs(containers, container_info, executions,
                     ShutdownLogged(destroyLog, k.id, ok)),
                IF ok THEN shutdownRest ELSE <<>>, killing \ {k})
    /\ UNCHANGED <<now, nextContainerId, nextExecutionId, creating,
                   executing, reaper>>
    /\ UNCHANGED proxyVars

\* the shutdown's container.kill() ended; an exception is logged
ShutdownKillEnd(ok) ==
    /\ phase = "shutdown"
    /\ \E k \in killing :
         /\ k.by = "lifespan"
         /\ ShutdownContinue(
                Regs(containers, container_info, executions,
                     ShutdownLogged(destroyLog, k.id, ok)),
                shutdownRest, killing \ {k})
    /\ UNCHANGED <<now, nextContainerId, nextExecutionId, creating,
                   executing, reaper>>
    /\ UNCHANGED proxyVars

\* --------------------------------------------------------- specification
CMNext ==
    \/ Tick
    \/ CreateBegin
    \/ \E id \in ContainerIds : CreateRunOk(id)
    \/ \E id \in ContainerIds : CreateRunFail(id)
    \/ \E id \in ContainerIds : Get(id)
    \/ \E id \in ContainerIds : Info(id)
    \/ List
    \/ \E id \in ContainerIds : ExecuteBegin(id)
    \/ \E e \in ExecutionIds, error \in ExecutorOutcomes : ExecuteEnd(e, error)
    \/ \E e \in ExecutionIds : Status(e)
    \/ \E id \in ContainerIds : DestroyBegin(id)
    \/ \E id \in ContainerIds : KillOk(id)
    \/ \E id \in ContainerIds : KillFail(id)
    \/ ReaperWake
    \/ \E ok \in BOOLEAN : ReaperKillEnd(ok)
    \/ ShutdownBegin
    \/ \E ok \in BOOLEAN : ShutdownKillEnd(ok)

\* the server after construction: an empty manager and an empty proxy
Init ==
    /\ CMInit
    /\ ProxyInit
    /\ AuthOff

Spec == Init /\ [][CMNext]_vars

\* ----------------------------------------------------------------- C2
\* the executions of the registry that container `id` owns
OwnedBy(id) ==
    {e \in DOMAIN executions : executions[e].container_id = id}

\* a destroy_container(id) call has ended, by returning or by raising
DestroyEnded(id) == destroyLog[id] # {}

\* C2: once a destroy(id) has ended, info(id) fails with NotFound and
\* execution_status(e) fails with NotFound for every execution e of id,
\* whatever its status was
C2_DestroyedIsGone ==
    \A id \in ContainerIds :
        DestroyEnded(id) =>
            /\ get_container_info(id) = NotFound
            /\ \A e \in ExecutionIds :
                   \/ get_execution_status(e) = NotFound
                   \/ get_execution_status(e).container_id # id

\* a container that had an execution was destroyed, after the handler of
\* the execution had completed it
C2_Witness ==
    /\ nextExecutionId > 1
    /\ executing = {}
    /\ executions = <<>>
    /\ \E id \in ContainerIds : "True" \in destroyLog[id]

\* ----------------------------------------------------------------- C3
\* C3: every execution record names an owning container that is in the
\* container registry
C3_OwnerRegistered ==
    \A e \in DOMAIN executions :
        /\ executions[e].container_id \in containers
        /\ executions[e].container_id \in DOMAIN container_info

\* an execute handler still awaits the executor, its container has been
\* destroyed and its record purged
C3_Witness ==
    \E e \in executing :
        /\ e \notin DOMAIN executions
        /\ \E id \in ContainerIds : DestroyEnded(id)

\* ----------------------------------------------------------------- C4
\* C4: a container receives at most one kill, and a destroy(id) that finds
\* no handle issues no kill and changes neither the registries nor the
\* kills in flight
C4_KillOnce ==
    /\ [](\A id \in ContainerIds : killCount[id] <= 1)
    /\ [][\A id \in ContainerIds :
            id \notin containers =>
               /\ killCount'[id] = killCount[id]
               /\ DestroyBegin(id) =>
                      UNCHANGED <<containers, container_info, executions,
                                  killing>>]_vars

\* a second destroy of a container that was killed has returned False
C4_Witness ==
    \E id \in ContainerIds :
        /\ killCount[id] = 1
        /\ "False" \in destroyLog[id]

\* ----------------------------------------------------------------- C5
\* C5: a destroy(id) that finds no record fails with NotFound, at the
\* manager and (404) at the DELETE endpoint
C5_SecondDestroyNotFound ==
    \A id \in ContainerIds :
        \A r \in destroyLog[id] \ {"True", "RuntimeStop"} :
            /\ r = "NotFound"
            /\ DeleteStatus(r) = 404

\* ----------------------------------------------------------------- C6
\* C6: when the kill of destroy(id) has failed, destroy has raised
\* RuntimeStop and the handle, the info record and the executions of id
\* are out of the registries
C6_KillFailedRecordGone ==
    /\ [](\A id \in ContainerIds :
            "RuntimeStop" \in destroyLog[id] =>
                /\ id \notin containers
                /\ get_container_info(id) = NotFound
                /\ OwnedBy(id) = {})
    /\ [][\A id \in ContainerIds :
            KillFail(id) =>
                /\ "RuntimeStop" \in destroyLog'[id]
                /\ UNCHANGED registries]_vars

\* a kill has failed for a container that had an execution
C6_Witness ==
    /\ nextExecutionId > 1
    /\ executions = <<>>
    /\ \E id \in ContainerIds : destroyLog[id] = {"RuntimeStop"}

\* ----------------------------------------------------------------- C7
\* C7: while container.run() is awaited nothing is registered for the new
\* id, and the failure of container.run() leaves the three registries as
\* they are
C7_FailedCreateRegistersNothing ==
    /\ [](\A id \in creating :
            /\ id \notin containers
            /\ id \notin DOMAIN container_info
            /\ OwnedBy(id) = {})
    /\ [][\A id \in ContainerIds :
            CreateRunFail(id) => UNCHANGED registries]_vars

\* a create has failed: its id was minted, is not being created, and was
\* never registered (a registered id leaves the registry by a kill only)
C7_Witness ==
    \E id \in ContainerIds :
        /\ id < nextContainerId
        /\ id \notin creating
        /\ id \notin containers
        /\ killCount[id] = 0
        /\ containers # {}

\* ----------------------------------------------------------------- C8
\* C8: get(id) sets the last-used-at of a live record to now and, on an
\* unknown id, fails with NotFound and changes nothing; info(id) and
\* list() change no record
C8_GetTouchesInfoDoesNot ==
    /\ [](\A id \in ContainerIds :
            id \notin DOMAIN container_info => get_container(id) = NotFound)
    /\ [][\A id \in ContainerIds :
            /\ (Get(id) /\ get_container(id) # NotFound) =>
                   /\ container_info'[id].last_used_at = now
                   /\ \A other \in DOMAIN container_info \ {id} :
                          container_info'[other] = container_info[other]
            /\ (Get(id) /\ get_container(id) = NotFound) => UNCHANGED vars
            /\ (Info(id) \/ List) => UNCHANGED container_info]_vars

\* a get has advanced the last-used-at of a record (no execute handler,
\* the other operation that touches, has run)
C8_Witness ==
    /\ nextExecutionId = 1
    /\ \E id \in DOMAIN container_info :
           container_info[id].last_used_at > container_info[id].created_at

\* ----------------------------------------------------------------- C9
\* the step that ends a reaper pass in which a kill was awaited
PassEnds == reaper.pc = "kill" /\ reaper'.pc = "sleep"

\* the step in which the reaper destroys a record
ReaperDestroys ==
    /\ reaper'.pc = "kill"
    /\ reaper.pc = "kill" => reaper'.cur # reaper.cur

\* C9 as claimed: at the end of a pass every record that was idle when
\* the pass began is destroyed, and the reaper has destroyed no other
C9_IdleAtStartDestroyed ==
    [][PassEnds =>
          /\ \A id \in reaper.idleAtStart : id \notin containers'
          /\ reaper.reaped \subseteq reaper.idleAtStart]_vars

\* C9 as amended: at the end of a pass no record of the snapshot that is
\* still registered is idle at the pass's threshold, and every record the
\* reaper destroys is idle at that threshold when the reaper reaches it
C9_IdleWhenReachedDestroyed ==
    /\ [][PassEnds =>
            \A id \in reaper.snapshot :
                id \in containers' =>
                    ~IsIdle(container_info', id, reaper.threshold)]_vars
    /\ [][ReaperDestroys =>
            IsIdle(container_info, reaper'.cur, reaper'.threshold)]_vars

\* the reaper awaits its second kill of a pass, after the first one failed
C9_Witness ==
    /\ reaper.pc = "kill"
    /\ Cardinality(reaper.reaped) = 2
    /\ \E id \in reaper.reaped : "RuntimeStop" \in destroyLog[id]

\* ============================================================ MCPSession
\* The suspension points of a session are create_subprocess_exec in
\* start(), process.wait() in stop(), the get on an empty queue in
\* receive_message and in _write_stdin, and readline in _read_stdout.

\* the one logical server name the requests of this model use
ServerName == "srv"

\* the JSON-RPC id of a notification (null); the child answers the frames
\* that have an id, with a line of the same id
NoId == 0

\* no stop() call has returned yet
NoStop == [state |-> "none", process |-> "none", at_once |-> FALSE]

\* returned_to of a session records the (container, server) of the last
\* request get_or_create_session returned the session to
NoOne == [id |-> 0, server |-> ""]

\* what the caller of stop() finds when the call returns; at_once: the call
\* found the session closed or closing and returned on its first line
StopReturn(se) ==
    [state |-> se.state, process |-> se.process, at_once |-> TRUE]

\* MCPSession.__init__; starts, starting, sent, spawned, child, orphans and
\* stopping record the calls made on the object and the child's side, and
\* stop_result what the last stop() call that returned left behind
NewSession(key, id, t) ==
    [session_id |-> key, container_id |-> id, server_name |-> ServerName,
     state |-> "initializing", process |-> None, last_activity |-> t,
     stdin_queue |-> <<>>, stdout_queue |-> <<>>, tasks |-> "none",
     orphans |-> FALSE, spawned |-> 0, child |-> <<>>, sent |-> 0,
     starts |-> 0, starting |-> 0, stopping |-> {},
     stop_result |-> NoStop, notes |-> 0, returned_to |-> NoOne,
     live_in_stop |-> FALSE]

\* start(), after create_subprocess_exec has returned the child: the
\* process and the task list are replaced, whatever they were
start_spawned(se, t) ==
    [se EXCEPT !.process = "running", !.spawned = @ + 1, !.child = <<>>,
               !.orphans = se.orphans \/ se.tasks = "running",
               !.tasks = "running", !.state = "active",
               !.last_activity = t]

\* mutant: the except branch only logs
start_failed_logs(se) == se

\* start(), the except branch
start_failed(se) == [se EXCEPT !.state = "error"]

\* mutant: stop() that returns at once only on a closing session
stop_begin_closed_again(se) ==
    IF se.state = "closing"
    THEN [se EXCEPT !.stop_result = StopReturn(se)]
    ELSE LET c == [se EXCEPT !.state = "closing",
                             !.tasks = IF @ = "running"
                                       THEN "cancelled" ELSE @]
         IN  IF se.process = "running"
             THEN [c EXCEPT !.stopping = @ \cup {se.spawned}]
             ELSE [c EXCEPT !.state = "closed",
                            !.stop_result = [state |-> "closed",
                                             process |-> se.process,
                                             at_once |-> FALSE]]

\* stop() up to its first suspension: nothing on a closed or closing
\* session; otherwise closing, the tasks of the list cancelled, and either
\* terminate() sent and wait() awaited, or closed at once
stop_begin(se) ==
    IF se.state \in {"closed", "closing"}
    THEN [se EXCEPT !.stop_result = StopReturn(se)]
    ELSE LET c == [se EXCEPT !.state = "closing",
                             !.tasks = IF @ = "running"
                                       THEN "cancelled" ELSE @]
         IN  IF se.process = "running"
             THEN [c EXCEPT !.stopping = @ \cup {se.spawned}]
             ELSE [c EXCEPT !.state = "closed",
                            !.stop_result = [state |-> "closed",
                                             process |-> se.process,
                                             at_once |-> FALSE]]

\* stop() from the return of wait(): p is the process it waited for, how is
\* "terminated" (exit within 2 s), "killed" (after the timeout) or "error"
\* (terminate or wait raised and the error was logged)
stop_end(se, p, how) ==
    LET process == IF p = se.spawned /\ how # "error"
                   THEN "exited" ELSE se.process
    IN  [se EXCEPT !.state = "closed",
                   !.stopping = @ \ {p},
                   !.process = process,
                   !.stop_result = [state |-> "closed",
                                    process |-> process,
                                    at_once |-> FALSE]]

StopOutcomes == {"terminated", "killed", "error"}

\* mutant: send_message that puts the frame at the head of the queue
send_message_first(se, frame, t) ==
    [se EXCEPT !.last_activity = t,
               !.stdin_queue = <<frame>> \o @,
               !.sent = @ + 1]

\* send_message on an active session; it raises on any other state
send_message(se, frame, t) ==
    [se EXCEPT !.last_activity = t,
               !.stdin_queue = Append(@, frame),
               !.sent = @ + 1]

\* receive_message on an active session whose queue holds a line
receive_message(se, t) ==
    [se EXCEPT !.last_activity = t, !.stdout_queue = Tail(@)]

\* an idle test that includes the limit
is_idle_at_timeout(se, t, max_idle_time) ==
    t - se.last_activity >= max_idle_time

is_idle_timeout(se, t, max_idle_time) == t - se.last_activity > max_idle_time

\* a task of the session that has not been cancelled
TasksRun(se) == se.tasks = "running" \/ se.orphans

SetSession(s, se) == [sess EXCEPT ![s] = se]

\* -------------------------------------------- the session API, called directly
otherProxyVars == <<sessions, proxyCalls, sessionReaper, proxyStop,
                    lastResponse>>

\* one MCPSession, constructed and not yet started
SessionInit ==
    /\ CMInit
    /\ AuthOff
    /\ sess = <<NewSession(1, 1, 0)>>
    /\ sessions = <<>>
    /\ proxyCalls = {}
    /\ sessionReaper = SessionReaperAsleep
    /\ proxyStop = NotStopping
    /\ lastResponse = NoResponse

\* await session.start(): up to create_subprocess_exec
SessionStart(s) ==
    /\ sess[s].starts < MaxStarts
    /\ sess' = SetSession(s, [sess[s] EXCEPT !.starts = @ + 1,
                                             !.starting = @ + 1])
    /\ UNCHANGED <<cmVars, otherProxyVars>>

\* start() from the return of create_subprocess_exec, or from its failure
SessionStarted(s, ok) ==
    /\ sess[s].starting > 0
    /\ LET se == [sess[s] EXCEPT !.starting = @ - 1]
       IN  sess' = SetSession(s, IF ok THEN start_spawned(se, now)
                                       ELSE start_failed(se))
    /\ UNCHANGED <<cmVars, otherProxyVars>>

\* await session.stop(): up to process.wait(), or to the end
SessionStop(s) ==
    /\ sess' = SetSession(s, stop_begin(sess[s]))
    /\ UNCHANGED <<cmVars, otherProxyVars>>

SessionStopped(s, p, how) ==
    /\ p \in sess[s].stopping
    /\ sess' = SetSession(s, stop_end(sess[s], p, how))
    /\ UNCHANGED <<cmVars, otherProxyVars>>

\* await session.send_message(frame)
SessionSend(s) ==
    /\ sess[s].sent < MaxFrames
    /\ IF sess[s].state = "active"
       THEN sess' = SetSession(s, send_message(sess[s], sess[s].sent + 1, now))
       ELSE UNCHANGED sess
    /\ UNCHANGED <<cmVars, otherProxyVars>>

\* await session.receive_message(timeout): a line, a timeout, or the
\* RuntimeError of a session that is not active
SessionReceive(s) ==
    /\ IF sess[s].state = "active" /\ sess[s].stdout_queue # <<>>
       THEN sess' = SetSession(s, receive_message(sess[s], now))
       ELSE UNCHANGED sess
    /\ UNCHANGED <<cmVars, otherProxyVars>>

\* _write_stdin: one frame from the queue to the child's stdin
WriteStdin(s) ==
    /\ TasksRun(sess[s])
    /\ sess[s].process = "running"
    /\ sess[s].stdin_queue # <<>>
    /\ sess' = SetSession(s, [sess[s] EXCEPT
                                !.child = IF Head(sess[s].stdin_queue) = NoId
                                          THEN @
                                          ELSE Append(@, Head(sess[s].stdin_queue)),
                                !.stdin_queue = Tail(@)])
    /\ UNCHANGED <<cmVars, otherProxyVars>>

\* _read_stdout: the child's answer to one frame, from its stdout to the
\* queue
ReadStdout(s) ==
    /\ TasksRun(sess[s])
    /\ sess[s].process = "running"
    /\ sess[s].child # <<>>
    /\ sess' = SetSession(s, [sess[s] EXCEPT
                                !.stdout_queue = Append(@, Head(sess[s].child)),
                                !.child = Tail(@)])
    /\ UNCHANGED <<cmVars, otherProxyVars>>

\* the child exits on its own: _read_stdout and _read_stderr read the end
\* of their streams and leave their loops; what the child had not answered
\* is never answered
ChildExits(s) ==
    /\ sess[s].process = "running"
    /\ sess[s].stopping = {}
    /\ sess' = SetSession(s, [sess[s] EXCEPT !.process = "exited",
                                             !.child = <<>>])
    /\ UNCHANGED <<cmVars, otherProxyVars>>

\* _write_stdin on a child that has exited: the frame is taken from the
\* queue, write or drain raises, the error is logged and the task ends
WriteStdinFails(s) ==
    /\ TasksRun(sess[s])
    /\ sess[s].process = "exited"
    /\ sess[s].stdin_queue # <<>>
    /\ sess' = SetSession(s, [sess[s] EXCEPT
                                !.stdin_queue = Tail(@),
                                !.tasks = IF @ = "running" THEN "ended" ELSE @,
                                !.orphans = FALSE])
    /\ UNCHANGED <<cmVars, otherProxyVars>>

SessionNext ==
    \/ Tick
    \/ \E s \in DOMAIN sess : SessionStart(s)
    \/ \E s \in DOMAIN sess, ok \in BOOLEAN : SessionStarted(s, ok)
    \/ \E s \in DOMAIN sess : SessionStop(s)
    \/ \E s \in DOMAIN sess, p \in 1..MaxStarts, how \in StopOutcomes :
          SessionStopped(s, p, how)
    \/ \E s \in DOMAIN sess : SessionSend(s)
    \/ \E s \in DOMAIN sess : SessionReceive(s)
    \/ \E s \in DOMAIN sess : WriteStdin(s)
    \/ \E s \in DOMAIN sess : ReadStdout(s)
    \/ \E s \in DOMAIN sess : ChildExits(s)
    \/ \E s \in DOMAIN sess : WriteStdinFails(s)

SpecSession == SessionInit /\ [][SessionNext]_vars

\* ---------------------------------------------------------------- C10
StateRank(st) ==
    CASE st = "initializing" -> 0
      [] st = "active" -> 1
      [] st = "closing" -> 2
      [] st = "closed" -> 3
      [] OTHER -> 4

\* a step of the declared machine: forward along the chain, into error from
\* a state that is not closed, and from error towards closed
Allowed(a, b) ==
    \/ a = b
    \/ a # "error" /\ b # "error" /\ StateRank(a) < StateRank(b)
    \/ b = "error" /\ a # "closed"
    \/ a = "error" /\ b \in {"closing", "closed"}

\* C10: a session's state changes only along initializing -> active ->
\* closing -> closed, with error entered only from a state that is not
\* terminal; no call takes a closed or closing session back to active.
C10_StateMonotone ==
    [][\A s \in DOMAIN sess : Allowed(sess[s].state, sess'[s].state)]_vars

\* ================================================================ MCPProxy
\* MCPProxy.sessions is a dict: a sequence of [key, s] entries in insertion
\* order, s the index of the MCPSession object in sess.  Minted keys
\* ("mcp-<uuid4>") are the index of the object they are minted for; key 0 is
\* a key a client has made up.
MadeUpKey == 0

\* no Mcp-Session-Id header (or an empty one)
NoKey == -1

Keys(reg) == {reg[i].key : i \in DOMAIN reg}

Lookup(reg, k) == (CHOOSE i \in DOMAIN reg : reg[i].key = k)

SessionOf(reg, k) == reg[Lookup(reg, k)].s

\* self.sessions[k] = session
PutSession(reg, k, s) ==
    IF k \in Keys(reg)
    THEN [reg EXCEPT ![Lookup(reg, k)].s = s]
    ELSE Append(reg, [key |-> k, s |-> s])

\* self.sessions.pop(k, None)
PopSession(reg, k) ==
    SelectSeq(reg, LAMBDA entry : entry.key # k)

\* the session ids a client can put in the Mcp-Session-Id header
ClientKeys == {NoKey, MadeUpKey} \cup Keys(sessions)

\* the ids a client gives its requests
RequestIds == 1..MaxFrames

\* a line that is a JSON array, which has no id: a batch and its answer
BatchLine == -1

ServerNames == {ServerName, "alt"}

EndCall(c) == proxyCalls \ {c}

MoveCall(c, d) == (proxyCalls \ {c}) \cup {d}

\* the frames handle_mcp_request yields
ResponseFrame(line) == [kind |-> "response", id |-> line]

\* a timeout frame that carries no id
TimeoutFrameNoId(c) == [kind |-> "timeout", id |-> NoId]

TimeoutFrame(c) == [kind |-> "timeout", id |-> c.rid]

ErrorFrame(c) == [kind |-> "error", id |-> c.rid]

\* the endpoint answers call c with an HTTP status; yielded is what
\* handle_mcp_request has yielded to it
Answer(c, status, yielded) ==
    lastResponse' = [status |-> status, rid |-> c.rid, n |-> c.n,
                     yielded |-> yielded,
                     code |-> 0, eid |-> NoId, refused |-> ""]

\* the JSON-RPC error codes of the two envelopes the endpoint builds itself
ParseError == -32700

InvalidRequest == -32600

\* what await request.json() and the validation make of a body: a request
\* object or a batch of them, JSON that JSONRPC20Request refuses, text that
\* json.loads refuses (JSONDecodeError), bytes that json.loads cannot
\* decode as text (UnicodeDecodeError)
BodyKinds == {"request", "invalid", "not_json", "not_text"}

\* the id of the -32600 envelope: request_data.get("id") of a dict, None
\* of a list
EnvelopeId(c) == IF c.n > 0 THEN NoId ELSE c.rid

\* the endpoint returns its own error envelope for call c, whose body was
\* refused as `why`, before handle_mcp_request is called
Refuse(c, code, eid, why) ==
    lastResponse' = [status |-> 400, rid |-> c.rid, n |-> c.n,
                     yielded |-> <<>>,
                     code |-> code, eid |-> eid, refused |-> why]

\* an exception leaves the endpoint: the application answers 500
Unhandled(c, why) ==
    lastResponse' = [status |-> 500, rid |-> c.rid, n |-> c.n,
                     yielded |-> <<>>,
                     code |-> 0, eid |-> NoId, refused |-> why]

\* handle_mcp_request has ended and the endpoint returns its JSONResponse
Finish(c, yielded) == Answer(c, 200, yielded)

\* handle_mcp_request in an except branch: it yields the error frame and
\* ends; on a batch request_data is a list, request_data.get raises inside
\* the branch and the endpoint fails with 500
FailWith(c) ==
    IF c.n > 0
    THEN Answer(c, 500, <<>>)
    ELSE Finish(c, Append(c.yielded, ErrorFrame(c)))

\* the body of a JSON response: responses[0] (or null) for a single
\* request, the list of the frames for a batch
JsonBody(r) ==
    IF r.n > 0 THEN r.yielded
    ELSE IF r.yielded # <<>> THEN <<r.yielded[1]>> ELSE <<>>

\* POST /containers/{id}/mcp-proxy/{server}: get_container, then the body
\* is awaited; rid is the id of the request (NoId: a notification), n the
\* number of requests of a batch (0: a single request)
ProxyRequest(id, server, key, rid, n) ==
    /\ Serving
    /\ id \in KnownIds
    /\ key \in ClientKeys
    /\ n > 0 => rid = NoId
    /\ Cardinality(proxyCalls) < MaxCalls
    /\ LET c == [id |-> id, server |-> server, key |-> key, rid |-> rid,
                 n |-> n, pc |-> "body", s |-> 0, yielded |-> <<>>]
       IN  IF get_container(id) = NotFound
           THEN /\ Answer(c, 404, <<>>)
                /\ UNCHANGED <<container_info, proxyCalls>>
           ELSE /\ container_info' = Touched(container_info, id, now)
                /\ proxyCalls' = proxyCalls \cup {c}
                /\ UNCHANGED lastResponse
    /\ UNCHANGED <<containers, executions, now, nextContainerId,
                   nextExecutionId, creating, executing, killing, killCount,
                   reaper, phase, shutdownRest, destroyLog>>
    /\ UNCHANGED <<sess, sessions, sessionReaper, proxyStop, authVars>>

\* get_or_create_session that never looks the id up
NeverReuses(c) == FALSE

\* get_or_create_session returning any session stored under the id
ReusesAnyPair(c) ==
    /\ c.key # NoKey
    /\ c.key \in Keys(sessions)

\* get_or_create_session returns the stored session
Reuses(c) ==
    /\ c.key # NoKey
    /\ c.key \in Keys(sessions)
    /\ sess[SessionOf(sessions, c.key)].container_id = c.id
    /\ sess[SessionOf(sessions, c.key)].server_name = c.server

\* handle_mcp_request from the return of get_or_create_session with
\* session s, which sr is the state of: send_message raises on a session
\* that is not active; otherwise the body is queued as one frame, and the
\* call ends (a notification), fails on request_data.get (a batch) or
\* awaits the answer
SendOn(c, s, sr) ==
    LET se == [sr EXCEPT !.returned_to = [id |-> c.id, server |-> c.server]]
    IN
    IF se.state # "active"
    THEN /\ sess' = SetSession(s, se)
         /\ proxyCalls' = EndCall(c)
         /\ FailWith(c)
    ELSE /\ sess' = SetSession(s, send_message(
                        se, IF c.n > 0 THEN BatchLine ELSE c.rid, now))
         /\ IF c.n > 0
            THEN /\ proxyCalls' = EndCall(c)
                 /\ FailWith(c)
            ELSE IF c.rid = NoId
            THEN /\ proxyCalls' = EndCall(c)
                 /\ Finish(c, c.yielded)
            ELSE /\ proxyCalls' = MoveCall(c, [c EXCEPT !.pc = "receive",
                                                       !.s = s])
                 /\ UNCHANGED lastResponse

\* await request.json() raises on the body of call c: JSONDecodeError is
\* caught and answered with the -32700 envelope; UnicodeDecodeError, which
\* json.loads raises on bytes that are not UTF-8, is no JSONDecodeError and
\* leaves the endpoint
ProxyBodyFails(c, body) ==
    /\ c \in proxyCalls
    /\ c.pc = "body"
    /\ body \in {"not_json", "not_text"}
    /\ proxyCalls' = EndCall(c)
    /\ IF body = "not_json"
       THEN Refuse(c, ParseError, NoId, body)
       ELSE Unhandled(c, body)
    /\ UNCHANGED <<cmVars, sess, sessions, sessionReaper, proxyStop>>

\* the body has arrived as JSON: 400 on a body that is not a JSON-RPC
\* request or batch; otherwise get_or_create_session, which returns the
\* stored session or constructs one and awaits its start()
ProxyResolve(c, valid) ==
    /\ c \in proxyCalls
    /\ c.pc = "body"
    /\ IF ~valid
       THEN /\ proxyCalls' = EndCall(c)
            /\ Refuse(c, InvalidRequest, EnvelopeId(c), "invalid")
            /\ UNCHANGED sess
       ELSE IF Reuses(c)
       THEN LET s == SessionOf(sessions, c.key)
            IN  /\ sess[s].sent < MaxFrames
                /\ SendOn(c, s, [sess[s] EXCEPT !.last_activity = now])
       ELSE /\ Len(sess) < MaxSessions
            /\ LET s == Len(sess) + 1
                   key == IF c.key = NoKey THEN s ELSE c.key
               IN  /\ sess' = Append(sess,
                          [NewSession(key, c.id, now) EXCEPT
                              !.server_name = c.server,
                              !.starts = 1, !.starting = 1])
                   /\ proxyCalls' = MoveCall(c, [c EXCEPT !.pc = "start",
                                                          !.s = s])
                   /\ UNCHANGED lastResponse
    /\ UNCHANGED <<cmVars, sessions, sessionReaper, proxyStop>>

\* live_in_stop of a session records that it was registered and active
\* when MCPProxy.stop was called, or was registered while it ran
SeenByStop(se) ==
    [se EXCEPT !.live_in_stop = @ \/ proxyStop.pc \in {"cancel", "gather"}]

\* get_or_create_session from the return of start(): the session is
\* registered under its id and the frame is sent; a failed start raises
\* and handle_mcp_request takes its first except branch
ProxyStarted(c, ok) ==
    /\ c \in proxyCalls
    /\ c.pc = "start"
    /\ LET se == [sess[c.s] EXCEPT !.starting = @ - 1]
       IN  IF ok
           THEN /\ sessions' = PutSession(sessions, se.session_id, c.s)
                /\ SendOn(c, c.s, SeenByStop(start_spawned(se, now)))
           ELSE /\ sess' = SetSession(c.s, start_failed(se))
                /\ proxyCalls' = EndCall(c)
                /\ FailWith(c)
                /\ UNCHANGED sessions
    /\ UNCHANGED <<cmVars, sessionReaper, proxyStop>>

\* handle_mcp_request in its receive loop, waiting on the queue: a line
\* arrives and is yielded; it ends the call when its id is the id of the
\* request; otherwise receive_message is entered again, and raises when
\* the session is not active any more
ProxyReceive(c) ==
    /\ c \in proxyCalls
    /\ c.pc = "receive"
    /\ sess[c.s].stdout_queue # <<>>
    /\ LET line == Head(sess[c.s].stdout_queue)
           d == [c EXCEPT !.yielded = Append(@, ResponseFrame(line))]
       IN  /\ sess' = SetSession(c.s, receive_message(sess[c.s], now))
           /\ IF line = c.rid
              THEN /\ proxyCalls' = EndCall(c)
                   /\ Finish(c, d.yielded)
              ELSE IF sess[c.s].state # "active"
              THEN /\ proxyCalls' = EndCall(c)
                   /\ FailWith(d)
              ELSE /\ proxyCalls' = MoveCall(c, d)
                   /\ UNCHANGED lastResponse
    /\ UNCHANGED <<cmVars, sessions, sessionReaper, proxyStop>>

\* the wait on the queue times out after 30 s: the timeout frame is
\* yielded and ends the call
ProxyReceiveTimeout(c) ==
    /\ c \in proxyCalls
    /\ c.pc = "receive"
    /\ sess[c.s].stdout_queue = <<>>
    /\ proxyCalls' = EndCall(c)
    /\ Finish(c, Append(c.yielded, TimeoutFrame(c)))
    /\ UNCHANGED <<cmVars, sess, sessions, sessionReaper, proxyStop>>

\* ------------------------------------------------ _cleanup_idle_sessions
\* lifespan: session_timeout=CONTAINER_MAX_IDLE_TIME
session_timeout == CONTAINER_MAX_IDLE_TIME

\* the ids of the idle sessions, in the order of the registry
IdleSessions ==
    LET idle == SelectSeq(sessions, LAMBDA entry :
                    is_idle_timeout(sess[entry.s], now, session_timeout))
    IN  [i \in DOMAIN idle |-> idle[i].key]

RECURSIVE SessionReaperScan(_, _, _)
\* the loop over idle_sessions, up to the first stop() that has to wait for
\* its child: each id still in the registry is popped and its session
\* stopped
SessionReaperScan(reg, ss, rest) ==
    IF rest = <<>>
    THEN [sessions |-> reg, sess |-> ss, reaper |-> SessionReaperAsleep]
    ELSE IF Head(rest) \notin Keys(reg)
    THEN SessionReaperScan(reg, ss, Tail(rest))
    ELSE LET s == SessionOf(reg, Head(rest))
             se == stop_begin(ss[s])
             reg2 == PopSession(reg, Head(rest))
             ss2 == [ss EXCEPT ![s] = se]
         IN  IF se.stopping # ss[s].stopping
             THEN [sessions |-> reg2, sess |-> ss2,
                   reaper |-> [pc |-> "stop", rest |-> Tail(rest),
                               cur |-> s, p |-> ss[s].spawned]]
             ELSE SessionReaperScan(reg2, ss2, Tail(rest))

SessionReaperContinue(reg, ss, rest) ==
    LET r == SessionReaperScan(reg, ss, rest)
    IN  /\ sessions' = r.sessions
        /\ sess' = r.sess
        /\ sessionReaper' = r.reaper

\* the sleep ends and a pass starts
SessionReaperWake ==
    /\ Serving
    /\ proxyStop.pc = "idle"
    /\ sessionReaper.pc = "sleep"
    /\ SessionReaperContinue(sessions, sess, IdleSessions)
    /\ UNCHANGED <<cmVars, proxyCalls, proxyStop, lastResponse>>

\* the stop() the pass waits for returns, and the pass goes on
SessionReaperStopped(how) ==
    /\ proxyStop.pc = "idle"
    /\ sessionReaper.pc = "stop"
    /\ SessionReaperContinue(
           sessions,
           SetSession(sessionReaper.cur,
                      stop_end(sess[sessionReaper.cur], sessionReaper.p, how)),
           sessionReaper.rest)
    /\ UNCHANGED <<cmVars, proxyCalls, proxyStop, lastResponse>>

\* --------------------------------------------------------- MCPProxy.stop
\* stop() is called: the cleanup task is cancelled and awaited
ProxyStopBegin ==
    /\ Serving
    /\ proxyStop.pc = "idle"
    /\ proxyStop' = [pc |-> "cancel", waits |-> {}]
    /\ sess' = [s \in DOMAIN sess |->
                  IF /\ \E i \in DOMAIN sessions : sessions[i].s = s
                     /\ sess[s].state = "active"
                  THEN [sess[s] EXCEPT !.live_in_stop = TRUE]
                  ELSE sess[s]]
    /\ UNCHANGED <<cmVars, sessions, proxyCalls, sessionReaper,
                   lastResponse>>

RECURSIVE StopAll(_, _, _)
\* the session.stop() tasks of the sessions of `reg`, each up to its
\* first suspension; waits are the ones that wait for their child
StopAll(reg, ss, waits) ==
    IF reg = <<>>
    THEN [sess |-> ss, waits |-> waits]
    ELSE LET s == Head(reg).s
             se == stop_begin(ss[s])
         IN  StopAll(Tail(reg), [ss EXCEPT ![s] = se],
                     IF se.stopping # ss[s].stopping
                     THEN waits \cup {[s |-> s, p |-> ss[s].spawned]}
                     ELSE waits)

\* the cleanup task has ended on its CancelledError, which also ends the
\* session.stop() it was awaiting: that session stays as it is. stop()
\* goes on: a task runs session.stop() for every registered session and
\* gather awaits them; with no session registered, stop() returns
ProxyStopGather ==
    /\ proxyStop.pc = "cancel"
    /\ sessionReaper' = [SessionReaperAsleep EXCEPT !.pc = "cancelled"]
    /\ LET ss == IF sessionReaper.pc = "stop"
                 THEN SetSession(sessionReaper.cur,
                          [sess[sessionReaper.cur] EXCEPT
                              !.stopping = @ \ {sessionReaper.p}])
                 ELSE sess
           r == StopAll(sessions, ss, {})
       IN  /\ sess' = r.sess
           /\ proxyStop' = [pc |-> IF sessions = <<>> THEN "done"
                                   ELSE "gather",
                            waits |-> r.waits]
    /\ UNCHANGED <<cmVars, sessions, proxyCalls, lastResponse>>

\* one of the session.stop() tasks returns from its wait()
ProxyStopWaited(w, how) ==
    /\ proxyStop.pc = "gather"
    /\ w \in proxyStop.waits
    /\ sess' = SetSession(w.s, stop_end(sess[w.s], w.p, how))
    /\ proxyStop' = [proxyStop EXCEPT !.waits = @ \ {w}]
    /\ UNCHANGED <<cmVars, sessions, proxyCalls, sessionReaper,
                   lastResponse>>

\* gather returns: the registry is cleared and stop() returns
ProxyStopEnd ==
    /\ proxyStop.pc = "gather"
    /\ proxyStop.waits = {}
    /\ sessions' = <<>>
    /\ proxyStop' = [proxyStop EXCEPT !.pc = "done"]
    /\ UNCHANGED <<cmVars, sess, proxyCalls, sessionReaper, lastResponse>>

\* get_or_create_session of call c stays within the bounds of a
\* specification: maxSessions objects constructed, maxFrames frames sent
\* on the session it returns
ResolveWithin(c, maxSessions, maxFrames) ==
    IF Reuses(c)
    THEN sess[SessionOf(sessions, c.key)].sent < maxFrames
    ELSE Len(sess) < maxSessions

ProxyNext ==
    \/ Tick
    \/ nextContainerId <= MaxServed /\ CreateBegin
    \/ \E id \in ContainerIds : CreateRunOk(id)
    \/ \E id \in ContainerIds : CreateRunFail(id)
    \/ \E id \in ContainerIds : DestroyBegin(id)
    \/ \E id \in ContainerIds : KillOk(id)
    \/ \E id \in ContainerIds : KillFail(id)
    \/ \E id \in ContainerIds, key \in NoKey..MaxSessions,
          rid \in {NoId, 1} : ProxyRequest(id, ServerName, key, rid, 0)
    \/ \E c \in proxyCalls, valid \in BOOLEAN :
          /\ valid => ResolveWithin(c, MaxServedSessions, MaxProxyFrames)
          /\ ProxyResolve(c, valid)
    \/ \E c \in proxyCalls, ok \in BOOLEAN : ProxyStarted(c, ok)
    \/ \E c \in proxyCalls : ProxyReceive(c)
    \/ \E c \in proxyCalls : ProxyReceiveTimeout(c)
    \/ \E s \in DOMAIN sess : WriteStdin(s)
    \/ \E s \in DOMAIN sess : ReadStdout(s)
    \/ \E s \in DOMAIN sess : ChildExits(s)
    \/ \E s \in DOMAIN sess : WriteStdinFails(s)
    \/ SessionReaperWake
    \/ \E how \in StopOutcomes : SessionReaperStopped(how)

SpecProxy == Init /\ [][ProxyNext]_vars

\* the child sends a notification of its own: a line that has no id
ChildNotifies(s) ==
    /\ TasksRun(sess[s])
    /\ sess[s].process = "running"
    /\ sess[s].notes < MaxNotes
    /\ sess' = SetSession(s, [sess[s] EXCEPT
                                !.stdout_queue = Append(@, NoId),
                                !.notes = @ + 1])
    /\ UNCHANGED <<cmVars, otherProxyVars>>

\* the session reaper over the sessions of one container, which serve
\* notifications only
SweepNext ==
    \/ Tick
    \/ nextContainerId <= MaxServed /\ CreateBegin
    \/ \E id \in ContainerIds : CreateRunOk(id)
    \/ \E id \in ContainerIds, key \in NoKey..MaxSessions :
          ProxyRequest(id, ServerName, key, NoId, 0)
    \/ \E c \in proxyCalls : ProxyResolve(c, TRUE)
    \/ \E c \in proxyCalls : ProxyStarted(c, TRUE)
    \/ SessionReaperWake
    \/ \E how \in StopOutcomes : SessionReaperStopped(how)

SpecSweep == Init /\ [][SweepNext]_vars

\* MCPProxy.stop, called while the proxy serves notifications and the
\* session reaper runs
ShutdownNext ==
    \/ Tick
    \/ nextContainerId <= MaxServed /\ CreateBegin
    \/ \E id \in ContainerIds : CreateRunOk(id)
    \/ \E id \in ContainerIds, key \in NoKey..MaxSessions :
          ProxyRequest(id, ServerName, key, NoId, 0)
    \/ \E c \in proxyCalls : ProxyResolve(c, TRUE)
    \/ \E c \in proxyCalls, ok \in BOOLEAN : ProxyStarted(c, ok)
    \/ SessionReaperWake
    \/ \E how \in StopOutcomes : SessionReaperStopped(how)
    \/ ProxyStopBegin
    \/ ProxyStopGather
    \/ \E w \in proxyStop.waits, how \in StopOutcomes :
          ProxyStopWaited(w, how)
    \/ ProxyStopEnd

SpecShutdown == Init /\ [][ShutdownNext]_vars

\* ------------------------------------------------------- verify_api_key
\* the values of IPYBOX_API_KEY: not set, set
ConfiguredKeys == {"", "k"}

\* the X-API-Key header of a request: missing, the key, another value
PresentedKeys == {None, "k", "bad"}

\* the endpoints on containers, executions, files, MCP servers and the
\* MCP proxy
Endpoints ==
    {"create", "list", "info", "destroy", "execute", "status", "files",
     "mcp", "mcp-proxy"}

\* the endpoints declared with Depends(verify_api_key)
Depending == Endpoints \ {"mcp-proxy"}

\* verify_api_key returns True (TRUE) or raises HTTPException(401)
verify_api_key(api_key) ==
    IF API_KEY = "" THEN TRUE ELSE api_key = API_KEY

\* a request for endpoint ep arrives with X-API-Key api_key and FastAPI
\* resolves the dependencies of the endpoint: 401, or the handler runs
HttpRequest(ep, api_key) ==
    /\ Serving
    /\ lastRequest' =
           [endpoint |-> ep, api_key |-> api_key,
            status |-> IF ep \in Depending /\ ~verify_api_key(api_key)
                       THEN 401 ELSE 200]
    /\ UNCHANGED <<containers, container_info, executions, now,
                   nextContainerId, nextExecutionId, creating, executing,
                   killing, killCount, reaper, phase, shutdownRest,
                   destroyLog, sess, sessions, proxyCalls, sessionReaper,
                   proxyStop, lastResponse, API_KEY, lockVars>>

\* the handler of endpoint ep runs for the request that arrived last
Dispatched(ep) ==
    /\ lastRequest.endpoint = ep
    /\ lastRequest.status = 200

\* the server with or without a configured key
AuthInit ==
    /\ CMInit
    /\ ProxyInit
    /\ API_KEY \in ConfiguredKeys
    /\ lastRequest = NoRequest

AuthNext ==
    \/ \E ep \in Endpoints, api_key \in PresentedKeys :
          HttpRequest(ep, api_key)
    \/ Dispatched("create") /\ nextContainerId <= MaxServed /\ CreateBegin
    \/ \E id \in ContainerIds : CreateRunOk(id)
    \/ \E id \in ContainerIds : Dispatched("info") /\ Info(id)
    \/ Dispatched("list") /\ List
    \/ \E id \in ContainerIds : Dispatched("execute") /\ ExecuteBegin(id)
    \/ \E e \in ExecutionIds, error \in ExecutorOutcomes : ExecuteEnd(e, error)
    \/ \E e \in ExecutionIds : Dispatched("status") /\ Status(e)
    \/ \E id \in ContainerIds : Dispatched("destroy") /\ DestroyBegin(id)
    \/ \E id \in ContainerIds : KillOk(id)
    \/ \E id \in ContainerIds :
          Dispatched("mcp-proxy")
              /\ ProxyRequest(id, ServerName, NoKey, NoId, 0)
    \/ \E c \in proxyCalls :
          /\ ResolveWithin(c, MaxServedSessions, MaxProxyFrames)
          /\ ProxyResolve(c, TRUE)
    \/ \E c \in proxyCalls : ProxyStarted(c, TRUE)

SpecAuth == AuthInit /\ [][AuthNext]_vars

\* the registry: requests for any container and server name with any
\* session id, all of them notifications
RegistryNext ==
    \/ CreateBegin
    \/ \E id \in ContainerIds : CreateRunOk(id)
    \/ \E id \in ContainerIds, server \in ServerNames,
          key \in NoKey..MaxSessions :
          ProxyRequest(id, server, key, NoId, 0)
    \/ \E c \in proxyCalls, valid \in BOOLEAN : ProxyResolve(c, valid)
    \/ \E c \in proxyCalls, ok \in BOOLEAN : ProxyStarted(c, ok)
    \/ \E s \in DOMAIN sess : WriteStdin(s)

SpecRegistry == Init /\ [][RegistryNext]_vars

\* the correlator: requests of every shape on one session, whose child
\* answers, sends notifications of its own, or is slow
HandleNext ==
    \/ Tick
    \/ nextContainerId <= MaxServed /\ CreateBegin
    \/ \E id \in ContainerIds : CreateRunOk(id)
    \/ \E id \in ContainerIds, key \in NoKey..MaxSessions,
          rid \in {NoId} \cup RequestIds, n \in 0..MaxBatch :
          ProxyRequest(id, ServerName, key, rid, n)
    \/ \E c \in proxyCalls, valid \in BOOLEAN :
          /\ valid => ResolveWithin(c, MaxServedSessions, MaxFrames)
          /\ ProxyResolve(c, valid)
    \/ \E c \in proxyCalls, ok \in BOOLEAN : ProxyStarted(c, ok)
    \/ \E c \in proxyCalls : ProxyReceive(c)
    \/ \E c \in proxyCalls : ProxyReceiveTimeout(c)
    \/ \E s \in DOMAIN sess : WriteStdin(s)
    \/ \E s \in DOMAIN sess : ReadStdout(s)
    \/ \E s \in DOMAIN sess : ChildNotifies(s)
    \/ SessionReaperWake
    \/ \E how \in StopOutcomes : SessionReaperStopped(how)

SpecHandle == Init /\ [][HandleNext]_vars

\* ----------------------------------------------------------------- C1
\* the sessions of the registry that container `id` owns
SessionsOf(id) ==
    {i \in DOMAIN sessions : sess[sessions[i].s].container_id = id}

\* a destroy_container(id) call that found the container has ended
DestroyDone(id) == destroyLog[id] \cap {"True", "RuntimeStop"} # {}

\* C1: once a destroy(id) has completed, the proxy's registry holds no
\* session owned by id, and every session owned by id is closed.
C1_DestroyedHasNoSession ==
    \A id \in ContainerIds :
        DestroyDone(id) =>
            /\ SessionsOf(id) = {}
            /\ \A s \in DOMAIN sess :
                  sess[s].container_id = id => sess[s].state = "closed"

\* ---------------------------------------------------------------- C11
\* the sessions the registry holds that are active
Live == {sessions[i].s : i \in {j \in DOMAIN sessions :
                                   sess[sessions[j].s].state = "active"}}

\* C11: every live session (registered and active) has exactly one
\* subprocess and it is running; a session whose child has exited, or whose
\* writer task has failed, is not active any more.
C11_LiveChildRuns ==
    \A s \in Live :
        /\ sess[s].spawned = 1
        /\ sess[s].process = "running"
        /\ sess[s].tasks = "running"

\* ---------------------------------------------------------------- C12
\* C12: whenever a stop() call returns, the session is closed and its
\* subprocess, if it has one, has exited; also for the second of two
\* concurrent stop() calls and when terminate() or wait() raises.
C12_StopReturnsClosed ==
    \A s \in DOMAIN sess :
        sess[s].stop_result # NoStop =>
            /\ sess[s].stop_result.state = "closed"
            /\ sess[s].stop_result.process # "running"

\* ---------------------------------------------------------------- C13
\* the step drops the registry entry e, or binds its key to another session
Unregisters(e) ==
    \/ e.key \notin Keys(sessions')
    \/ SessionOf(sessions', e.key) # e.s

\* C13: an entry leaves the registry (dropped by the reaper or replaced by
\* a registration) only when its session has reached closed.
C13_RemovedOnlyClosed ==
    [][\A i \in DOMAIN sessions :
          Unregisters(sessions[i]) =>
              sess'[sessions[i].s].state = "closed"]_vars

\* ---------------------------------------------------------------- C14
\* the step is the return of start() to the get_or_create_session of call c
StartReturnsTo(c) ==
    /\ c.pc = "start"
    /\ sess[c.s].starting = 1
    /\ sess'[c.s].starting = 0

\* C14: the session get_or_create_session creates is registered under a
\* minted id: not the id the caller supplied, and not an id of the registry.
C14_RegisteredUnderMintedKey ==
    [][\A c \in proxyCalls :
          StartReturnsTo(c) =>
              \A i \in DOMAIN sessions' :
                  sessions'[i].s = c.s =>
                      /\ sessions'[i].key # c.key
                      /\ sessions'[i].key \notin Keys(sessions)]_vars

\* ---------------------------------------------------------------- C15
\* C15: get_or_create_session never returns a session whose
\* (container_id, server_name) differs from the pair of the request it
\* returns it to.
C15_ReturnedSessionMatches ==
    \A s \in DOMAIN sess :
        sess[s].returned_to # NoOne =>
            /\ sess[s].returned_to.id = sess[s].container_id
            /\ sess[s].returned_to.server = sess[s].server_name

\* a request that carried the id of a session of another (container,
\* server) was given a session of its own, constructed under that id
C15_Witness ==
    \E s1, s2 \in DOMAIN sess :
        /\ s1 # s2
        /\ sess[s1].session_id = sess[s2].session_id
        /\ <<sess[s1].container_id, sess[s1].server_name>> #
               <<sess[s2].container_id, sess[s2].server_name>>
        /\ sess[s1].returned_to # NoOne
        /\ sess[s2].returned_to # NoOne

\* ---------------------------------------------------------------- C16
\* call c, whose body has arrived, carries the id of a registered session
\* of its own (container, server)
PresentsOwnSession(c) ==
    /\ c.pc = "body"
    /\ c.key \in Keys(sessions)
    /\ sess[SessionOf(sessions, c.key)].container_id = c.id
    /\ sess[SessionOf(sessions, c.key)].server_name = c.server

\* what get_or_create_session could change of a session besides
\* last_activity
Identity(se) ==
    <<se.session_id, se.container_id, se.server_name, se.state, se.process,
      se.tasks, se.spawned, se.starts, se.starting>>

\* C16: get_or_create_session called with a registered id whose session
\* has the request's (container, server) returns that session, constructs
\* no session and spawns no subprocess, leaves the registry as it is and
\* only advances the session's last_activity (a body that is not a valid
\* request is answered 400 before get_or_create_session is called).
C16_ReuseChangesNothing ==
    [][\A c \in proxyCalls :
          (PresentsOwnSession(c) /\ c \notin proxyCalls') =>
              LET s == SessionOf(sessions, c.key)
              IN  /\ Len(sess') = Len(sess)
                  /\ sessions' = sessions
                  /\ Identity(sess'[s]) = Identity(sess[s])
                  /\ sess'[s].last_activity >= sess[s].last_activity
                  /\ \A t \in DOMAIN sess : t # s => sess'[t] = sess[t]
                  /\ \/ sess'[s].returned_to = [id |-> c.id,
                                                server |-> c.server]
                     \/ lastResponse'.status = 400]_vars

\* a session has been returned to a second request: two frames were sent
\* on it and it was spawned once
C16_Witness ==
    \E s \in DOMAIN sess :
        /\ sess[s].sent = 2
        /\ sess[s].spawned = 1
        /\ sess[s].returned_to # NoOne
        /\ s \in {sessions[i].s : i \in DOMAIN sessions}

\* ---------------------------------------------------------------- C17
\* the last response is of a handle_mcp_request call on a single request
\* with an id that ended normally
AnsweredRequest ==
    /\ lastResponse.status = 200
    /\ lastResponse.n = 0
    /\ lastResponse.rid # NoId

\* C17: a handle_mcp_request call on a request with id R that ends
\* normally has yielded, as its last frame, a frame with id R (the
\* child's response, the timeout frame or the internal-error frame), and
\* no frame after the first frame with id R.
C17_LastFrameHasRequestId ==
    AnsweredRequest =>
        LET y == lastResponse.yielded
        IN  /\ y # <<>>
            /\ y[Len(y)].id = lastResponse.rid
            /\ \A i \in 1..(Len(y) - 1) : y[i].id # lastResponse.rid

\* a call that first yielded a line that was not its answer and then
\* timed out
C17_Witness ==
    /\ AnsweredRequest
    /\ Len(lastResponse.yielded) = 2
    /\ lastResponse.yielded[1].kind = "response"
    /\ lastResponse.yielded[2].kind = "timeout"

\* ---------------------------------------------------------------- C18
\* C18: a handle_mcp_request call on a notification (a request without an
\* id) yields no frame, also when the session cannot be created or the
\* send fails.
C18_NotificationYieldsNothing ==
    (/\ lastResponse.status = 200
     /\ lastResponse.n = 0
     /\ lastResponse.rid = NoId) => lastResponse.yielded = <<>>

\* ---------------------------------------------------------------- C19
\* C19: for a single request with id R answered in JSON mode,
\* handle_mcp_request yields exactly one frame and the body of the
\* response is that frame, with id R, also when the child sends
\* notifications before its answer or the late answer of an earlier
\* request is still queued.
C19_BodyIsTheOneFrame ==
    AnsweredRequest =>
        /\ Len(lastResponse.yielded) = 1
        /\ JsonBody(lastResponse) = lastResponse.yielded
        /\ JsonBody(lastResponse)[1].id = lastResponse.rid

\* ---------------------------------------------------------------- C20
\* the step ends batch call c and send_message has accepted its body
BatchSentAndEnded(c) ==
    /\ c.n > 0
    /\ c \notin proxyCalls'
    /\ \E s \in DOMAIN sess : sess'[s].sent = sess[s].sent + 1

\* C20: a batch of N requests answered in JSON mode, whose body has been
\* sent to the child, is answered 200 with an array of exactly N frames.
C20_BatchAnsweredByArray ==
    [][\A c \in proxyCalls :
          BatchSentAndEnded(c) =>
              /\ lastResponse'.status = 200
              /\ Len(JsonBody(lastResponse')) = c.n]_vars

\* ---------------------------------------------------------------- C21
\* the Mcp-Session-Id header of the response to call c: the value of the
\* request's header, and no header (NoKey) when the request had none
ResponseHeader(c) == c.key

\* the step ends call c
CallEnds(c) ==
    /\ c \in proxyCalls
    /\ \A d \in proxyCalls' :
          <<d.id, d.server, d.key, d.rid, d.n>> #
              <<c.id, c.server, c.key, c.rid, c.n>>

\* C21: the response to a proxy call that was served by a session carries
\* the id of that session in Mcp-Session-Id: the request's header value
\* when one was supplied, the minted id when the call created the session.
C21_ResponseCarriesSessionId ==
    [][\A c \in proxyCalls :
          (c.pc = "receive" /\ CallEnds(c)) =>
              ResponseHeader(c) = sess[c.s].session_id]_vars

\* ---------------------------------------------------------------- C22
\* the idle time of the session of registry entry e
IdleTime(e) == now - sess[e.s].last_activity

\* the ids a pass that starts now lists as idle
IdleNow == {IdleSessions[i] : i \in DOMAIN IdleSessions}

\* the step is the start of a session-reaper pass that reaps
PassReaps ==
    /\ sessionReaper.pc = "sleep"
    /\ proxyCalls' = proxyCalls
    /\ Keys(sessions') # Keys(sessions)

\* the ids a pass in progress has still to pop
ToPop(r) == {r.rest[i] : i \in DOMAIN r.rest}

ProxyStopReturns == proxyStop.pc # "done" /\ proxyStop'.pc = "done"

\* C23: when MCPProxy.stop returns, the session reaper has ended, the
\* registry is empty, and every session that was registered and active
\* when stop was called, or was registered while it ran, is closed and
\* its subprocess has exited.
C23_StopLeavesNothingLive ==
    [][ProxyStopReturns =>
          /\ sessionReaper'.pc = "cancelled"
          /\ sessions' = <<>>
          /\ \A s \in DOMAIN sess' :
                sess'[s].live_in_stop =>
                    /\ sess'[s].state = "closed"
                    /\ sess'[s].process = "exited"]_vars

\* ---------------------------------------------------------------- C24
\* the ids the shutdown loop has still to destroy
ShutdownToDo == {shutdownRest[i] : i \in DOMAIN shutdownRest}

\* C24: once the shutdown has begun every container of the registry is
\* one the loop has still to destroy, whatever the kills before it did,
\* and when the shutdown has finished the loop has nothing left and the
\* container, info and execution registries are empty.
C24_ShutdownEmptiesRegistries ==
    /\ phase # "serving" => containers \subseteq ShutdownToDo
    /\ phase = "done" =>
          /\ shutdownRest = <<>>
          /\ containers = {}
          /\ DOMAIN container_info = {}
          /\ DOMAIN executions = {}

\* the shutdown has finished; the kill of its first container failed and
\* was logged, and its second container was destroyed after that
C24_Witness ==
    /\ phase = "done"
    /\ \E id1, id2 \in ContainerIds :
          /\ id1 < id2
          /\ "ShutdownError" \in destroyLog[id1]
          /\ "True" \in destroyLog[id2]
          /\ killCount[id1] = 1
          /\ killCount[id2] = 1

\* ---------------------------------------------------------------- C25
\* the step takes a request into its handler
RequestEnters ==
    \/ ~(creating' \subseteq creating)
    \/ ~(executing' \subseteq executing)
    \/ ~(killing' \subseteq killing)
    \/ Cardinality(proxyCalls') > Cardinality(proxyCalls)
    \/ container_info' # container_info /\ creating' = creating

\* C25: with a key configured, a request to a container, execution, file,
\* MCP or MCP-proxy endpoint whose X-API-Key is missing or differs from
\* the key is answered 401 and no such request enters its handler; every
\* other request passes.
C25_WrongKeyRejected ==
    /\ [](lastRequest # NoRequest =>
            IF API_KEY # "" /\ lastRequest.api_key # API_KEY
            THEN lastRequest.status = 401
            ELSE lastRequest.status = 200)
    /\ [][(/\ API_KEY # ""
           /\ lastRequest.api_key # API_KEY
           /\ lastRequest' = lastRequest) => ~RequestEnters]_vars

\* ---------------------------------------------------------------- C26
\* C26: complete_execution(e, error) on a registered execution sets the
\* status to error whenever error is not None, the empty message
\* included, and to completed when it is None, and sets completed_at; on
\* an id that is not registered it changes nothing.
C26_ErrorIffErrorGiven ==
    \A e \in ExecutionIds, error \in ExecutorOutcomes :
        LET after == Completed(executions, e, error, now)
        IN  IF e \in DOMAIN executions
            THEN /\ after[e].status =
                        IF error # None THEN "error" ELSE "completed"
                 /\ after[e].completed_at = now
            ELSE after = executions

\* ---------------------------------------------------------------- C27
\* C27: every container record has created_at <= last_used_at <= now, and
\* while a record exists its created_at stays and its last_used_at never
\* decreases.
C27_LastUsedMonotone ==
    /\ [](\A id \in DOMAIN container_info :
            /\ container_info[id].created_at <=
                   container_info[id].last_used_at
            /\ container_info[id].last_used_at <= now)
    /\ [][\A id \in DOMAIN container_info \cap DOMAIN container_info' :
            /\ container_info'[id].created_at =
                   container_info[id].created_at
            /\ container_info'[id].last_used_at >=
                   container_info[id].last_used_at]_vars

\* a record that was used after the time of its creation, at a later time
C27_Witness ==
    \E id \in DOMAIN container_info :
        /\ container_info[id].created_at < container_info[id].last_used_at
        /\ container_info[id].last_used_at < now

\* ---------------------------------------------------------------- C28
\* the step in which the start() that get_or_create_session awaits for
\* call c returns without having spawned a child
StartFailsFor(c) ==
    /\ c.pc = "start"
    /\ CallEnds(c)
    /\ sess'[c.s].spawned = sess[c.s].spawned

\* C28: when the start() of a session that get_or_create_session has
\* constructed fails to spawn the child, the session is in state error,
\* none of its tasks runs, the registry is as it was and does not hold the
\* session, and the call ends on the error of get_or_create_session.
C28_FailedStartRegistersNothing ==
    [][\A c \in proxyCalls :
          StartFailsFor(c) =>
              /\ sess'[c.s].state = "error"
              /\ ~TasksRun(sess'[c.s])
              /\ sessions' = sessions
              /\ \A i \in DOMAIN sessions' : sessions'[i].s # c.s
              /\ lastResponse'.yielded = <<ErrorFrame(c)>>]_vars

\* a session whose start failed: in error, never spawned, not registered
C28_Witness ==
    \E s \in DOMAIN sess :
        /\ sess[s].state = "error"
        /\ sess[s].starts = 1
        /\ sess[s].starting = 0
        /\ sess[s].spawned = 0
        /\ \A i \in DOMAIN sessions : sessions[i].s # s
        /\ lastResponse.yielded # <<>>

\* ---------------------------------------------------------------- C29
\* the endpoint from the arrival of the body of call c: await
\* request.json(), then the validation, then handle_mcp_request
ProxyBody(c, body) ==
    IF body \in {"not_json", "not_text"}
    THEN ProxyBodyFails(c, body)
    ELSE ProxyResolve(c, body = "request")

\* the endpoint on bodies of every kind, single requests and batches
BodyNext ==
    \/ Tick
    \/ nextContainerId <= MaxServed /\ CreateBegin
    \/ \E id \in ContainerIds : CreateRunOk(id)
    \/ \E id \in ContainerIds, key \in NoKey..MaxSessions,
          rid \in {NoId, 1}, n \in 0..MaxBatch :
          ProxyRequest(id, ServerName, key, rid, n)
    \/ \E c \in proxyCalls, body \in BodyKinds :
          /\ body = "request" =>
                 ResolveWithin(c, MaxServedSessions, MaxProxyFrames)
          /\ ProxyBody(c, body)
    \/ \E c \in proxyCalls, ok \in BOOLEAN : ProxyStarted(c, ok)
    \/ \E c \in proxyCalls : ProxyReceive(c)
    \/ \E c \in proxyCalls : ProxyReceiveTimeout(c)
    \/ \E s \in DOMAIN sess : WriteStdin(s)
    \/ \E s \in DOMAIN sess : ReadStdout(s)

SpecBody == Init /\ [][BodyNext]_vars

\* the envelope the claim gives a refused body: -32700 with id null for a
\* body that is not JSON, -32600 for JSON that is no request or batch,
\* with id null on a batch
EnvelopeFits(r) ==
    /\ r.status = 400
    /\ r.refused \in {"not_json", "not_text"} =>
           r.code = ParseError /\ r.eid = NoId
    /\ r.refused = "invalid" =>
           r.code = InvalidRequest /\ (r.n > 0 => r.eid = NoId)

\* C29: a proxy call whose body is not JSON, or is JSON but not a valid
\* JSON-RPC request object or batch, ends with HTTP 400 and the matching
\* envelope (-32700, or -32600 with id null for a batch), and the step
\* creates no session and sends nothing to any child
C29_BadBodyRefused ==
    [][\A c \in proxyCalls :
          (/\ c.pc = "body"
           /\ CallEnds(c)
           /\ lastResponse'.refused # "")
          => (/\ EnvelopeFits(lastResponse')
              /\ sess' = sess
              /\ sessions' = sessions)]_vars

\* ---------------------------------------------------------------- C30
\* the step is a call of stop() on session s, up to its first suspension
StopCalled(s) == sess' = SetSession(s, stop_begin(sess[s]))

\* the session without the record of what its last stop() returned
Observable(se) == [se EXCEPT !.stop_result = NoStop]

\* no start() of the session has spawned a child
NeverStarted(se) == se.spawned = 0 /\ se.process = None

\* C30: stop() on a session that is closed changes nothing of the session
\* and sends no terminate or kill to the subprocess, and stop() on a
\* session whose start never succeeded leaves it closed
C30_StopIdempotent ==
    [][\A s \in DOMAIN sess :
          StopCalled(s) =>
             /\ sess[s].state = "closed" =>
                    /\ Observable(sess'[s]) = Observable(sess[s])
                    /\ sess'[s].stopping = sess[s].stopping
             /\ NeverStarted(sess[s]) => sess'[s].state = "closed"]_vars

\* a stop() that found the session closed while its process, which an
\* earlier stop() failed to end, still runs
C30_Witness ==
    \E s \in DOMAIN sess :
        /\ sess[s].state = "closed"
        /\ sess[s].stop_result.at_once
        /\ sess[s].process = "running"

\* ---------------------------------------------------------------- C31
\* C31: a session that is closed holds no frame in its inbound queue
\* (_stdin_queue) nor in its outbound queue (_stdout_queue)
C31_ClosedQueuesDrained ==
    \A s \in DOMAIN sess :
        sess[s].state = "closed" =>
            /\ sess[s].stdin_queue = <<>>
            /\ sess[s].stdout_queue = <<>>

\* ---------------------------------------------------------------- C32
\* stop() has not been called on the session and its child runs
RunsUnstopped(se) == se.process = "running" /\ se.state = "active"

\* the registry holds session s under the session's own id
Reachable(s) ==
    /\ sess[s].session_id \in Keys(sessions)
    /\ SessionOf(sessions, sess[s].session_id) = s

\* C32: every session whose subprocess was spawned and on which stop() was
\* not called is held by the registry under its own session id, so that
\* the reaper and shutdown can reach its child
C32_RunningChildReachable ==
    \A s \in DOMAIN sess : RunsUnstopped(sess[s]) => Reachable(s)

\* ---------------------------------------------------------------- C33
\* the event loop runs every task that can run, and a child that was sent
\* terminate or kill exits: the wait() of a stop() returns, the cancelled
\* cleanup task ends, gather returns
ShutdownFairness ==
    /\ WF_vars(\E how \in StopOutcomes : SessionReaperStopped(how))
    /\ WF_vars(ProxyStopGather)
    /\ WF_vars(\E w \in proxyStop.waits, how \in StopOutcomes :
                  ProxyStopWaited(w, how))
    /\ WF_vars(ProxyStopEnd)

SpecShutdownFair == Init /\ [][ShutdownNext]_vars /\ ShutdownFairness

\* session s exists and is in state st
InState(s, st) == s \in DOMAIN sess /\ sess[s].state = st

\* C33: every session that enters closing eventually reaches closed, also
\* when the stop() that closes it is run by the session reaper and the
\* reaper is cancelled by MCPProxy.stop while it waits for the child
C33_ClosingLeadsToClosed ==
    \A s \in 1..MaxSessions : InState(s, "closing") ~> InState(s, "closed")

\* ---------------------------------------------------------------- C34
\* the handler of execution e is left without complete_execution: the
\* request task is cancelled, or the client of execute/stream disconnects
\* while stream_generator is suspended at a yield (a chunk, or the terminal
\* [DONE] or [ERROR] event, which is yielded before complete_execution):
\* CancelledError and GeneratorExit are no Exception, so no except branch
\* of the handler runs
ExecuteAbandoned(e) ==
    /\ e \in executing
    /\ executing' = executing \ {e}
    /\ UNCHANGED <<containers, container_info, executions, now,
                   nextContainerId, nextExecutionId, creating, killing,
                   killCount, reaper, phase, shutdownRest, destroyLog>>
    /\ UNCHANGED proxyVars

\* a time stamp one unit further in the past; 0 stands for "at least
\* MaxTime ago", None stays None
Earlier(t) == IF t <= 0 THEN t ELSE t - 1

\* time passes when the clock shows its last value: the clock keeps the
\* value and every stored time stamp moves one unit into the past, which
\* keeps every idle time the reaper compares with CONTAINER_MAX_IDLE_TIME
\* (MaxTime is larger); not taken while a pass of the reaper waits for a
\* kill, when its threshold is in use
TickOn ==
    /\ now = MaxTime
    /\ reaper.pc # "kill"
    /\ container_info' =
           [id \in DOMAIN container_info |->
               [container_info[id] EXCEPT
                   !.created_at = Earlier(@), !.last_used_at = Earlier(@)]]
    /\ executions' =
           [e \in DOMAIN executions |->
               [executions[e] EXCEPT
                   !.created_at = Earlier(@), !.completed_at = Earlier(@)]]
    /\ UNCHANGED <<containers, now, nextContainerId, nextExecutionId,
                   creating, executing, killing, killCount, reaper, phase,
                   shutdownRest, destroyLog>>
    /\ UNCHANGED proxyVars

\* the Container Manager with handlers that can be left and a clock that
\* does not stop
ExecuteNext ==
    \/ CMNext
    \/ \E e \in ExecutionIds : ExecuteAbandoned(e)
    \/ TickOn

\* the executor call of a handler that runs terminates, time passes, the
\* reaper, while it serves, keeps running its passes, and every
\* container.run() and container.kill() that is awaited ends
ExecuteFairness ==
    /\ WF_vars(\E e \in ExecutionIds, error \in ExecutorOutcomes :
                  ExecuteEnd(e, error))
    /\ WF_vars(Tick)
    /\ WF_vars(TickOn)
    /\ WF_vars(ReaperWake)
    /\ WF_vars(\E ok \in BOOLEAN : ReaperKillEnd(ok))
    /\ WF_vars(\E ok \in BOOLEAN : ShutdownKillEnd(ok))
    /\ WF_vars(\E id \in ContainerIds : CreateRunOk(id) \/ CreateRunFail(id))
    /\ WF_vars(\E id \in ContainerIds : KillOk(id) \/ KillFail(id))

SpecExecute == Init /\ [][ExecuteNext]_vars /\ ExecuteFairness

\* execution e is registered with status running
Running(e) == e \in DOMAIN executions /\ executions[e].status = "running"

\* C34: every execution registered by execute or execute/stream eventually
\* leaves status running, or is purged with its container, also when the
\* client disconnects or the handler is cancelled
C34_RunningEnds ==
    \A e \in ExecutionIds : Running(e) ~> ~Running(e)

\* ---------------------------------------------------------------- C35
\* the stop() the pass waits for raises: wait_for timed out, the child
\* exited before process.kill() ran, and kill() raises ProcessLookupError
\* inside the except asyncio.TimeoutError branch, where except Exception
\* of the same try does not apply. stop() is left before CLOSED is set; in
\* _cleanup_idle_sessions the try is around the while loop, so except
\* Exception logs the error and the coroutine returns
SessionReaperStopRaises ==
    /\ proxyStop.pc = "idle"
    /\ sessionReaper.pc = "stop"
    /\ sess' = SetSession(sessionReaper.cur,
                   [sess[sessionReaper.cur] EXCEPT
                       !.stopping = @ \ {sessionReaper.p},
                       !.process = "exited"])
    /\ sessionReaper' = [SessionReaperAsleep EXCEPT !.pc = "ended"]
    /\ UNCHANGED <<cmVars, sessions, proxyCalls, proxyStop, lastResponse>>

\* the session reaper whose stop() calls return or raise
ReaperNext ==
    \/ SweepNext
    \/ SessionReaperStopRaises

SpecReaper == Init /\ [][ReaperNext]_vars

\* C35: the session reaper runs its passes until it is cancelled: an error
\* raised while it stops an idle session does not end the reaper task
C35_ReaperEndsOnlyCancelled == sessionReaper.pc # "ended"

\* ---------------------------------------------------------------- C36
\* the outcomes of the executor call the claim names: a result, an
\* ExecutionError, a timeout
NamedOutcomes == {None, "ExecutionError", "Execution timed out"}

\* the record of e after complete_execution for an executor call that
\* ended with `error`
Matches(x, error) ==
    /\ x.status = IF error = None THEN "completed" ELSE "error"
    /\ x.error = error
    /\ x.completed_at # NoTime

\* the record of e is not written back from a terminal status to running
StaysTerminal(e) ==
    (/\ e \in DOMAIN executions
     /\ executions[e].status # "running"
     /\ e \in DOMAIN executions') => executions'[e].status # "running"

InFlight(se) == se.stdout_queue \o se.child \o se.stdin_queue

\* the frames of q are in the order of their ids, none twice
InSendOrder(q) == \A i, j \in DOMAIN q : i < j => q[i] < q[j]

\* the step is a receive_message on session s that returns a line
Receives(s) ==
    /\ sess[s].state = "active"
    /\ sess[s].stdout_queue # <<>>
    /\ sess' = SetSession(s, receive_message(sess[s], now))

\* one request is in flight on a child that was started once and runs
OneInFlight(se) ==
    /\ se.spawned = 1
    /\ se.process = "running"
    /\ Len(InFlight(se)) = 1

LockingOps ==
    {"cleanup_idle_containers", "create_container", "get_container",
     "get_container_info", "update_container_usage", "destroy_container",
     "list_containers", "register_execution", "complete_execution",
     "get_execution_status"}

\* async with self.lock: a body without an await
Section == <<"acquire", "release">>

\* mutant: get_container calls update_container_usage inside its section
ProgramNested(op, found) ==
    IF op = "get_container" /\ found
    THEN <<"acquire", "acquire", "release", "release">>
    ELSE IF op = "create_container"
    THEN IF found THEN <<"run">> \o Section ELSE <<"run">>
    ELSE IF op = "destroy_container" /\ found
    THEN Section \o <<"kill">>
    ELSE IF op = "cleanup_idle_containers" /\ found
    THEN Section \o Section \o Section \o <<"kill">>
    ELSE Section

\* what an operation does with the lock and where it suspends, in the
\* order of its code; found: run() succeeded (create_container), the id is
\* registered (get_container, destroy_container), the snapshot holds an
\* idle container (cleanup_idle_containers: the snapshot, then
\* get_container_info and destroy_container for the candidate)
Program(op, found) ==
    IF op = "get_container" /\ found
    THEN Section \o Section
    ELSE IF op = "create_container"
    THEN IF found THEN <<"run">> \o Section ELSE <<"run">>
    ELSE IF op = "destroy_container" /\ found
    THEN Section \o <<"kill">>
    ELSE IF op = "cleanup_idle_containers" /\ found
    THEN Section \o Section \o Section \o <<"kill">>
    ELSE Section

\* the step task t is at: "" when it runs no operation, "return" when its
\* operation has nothing left to do
StepOf(t) ==
    LET o == lockOps[t]
    IN  IF o.op = "" THEN ""
        ELSE IF o.pc > Len(Program(o.op, o.found)) THEN "return"
        ELSE Program(o.op, o.found)[o.pc]

\* awaits that suspend the task: container.run(), container.kill()
Suspensions == {"run", "kill"}

\* the variables the lock discipline does not touch
lockFreeVars ==
    <<containers, container_info, executions, now, nextContainerId,
      nextExecutionId, creating, executing, killing, killCount, reaper,
      phase, shutdownRest, destroyLog, sess, sessions, proxyCalls,
      sessionReaper, proxyStop, lastResponse, API_KEY, lastRequest>>

Advance(t) == lockOps' = [lockOps EXCEPT ![t].pc = @ + 1]

\* task t calls an operation
LockCall(t, op, found) ==
    /\ lockOps[t] = NoOp
    /\ lockOps' = [lockOps EXCEPT ![t] = [op |-> op, found |-> found,
                                          pc |-> 1]]
    /\ UNCHANGED <<lock, lockFreeVars>>

\* async with self.lock, entry: asyncio.Lock is not reentrant, the task
\* waits while anyone, itself included, holds the lock
LockAcquire(t) ==
    /\ StepOf(t) = "acquire"
    /\ lock = Unlocked
    /\ lock' = t
    /\ Advance(t)
    /\ UNCHANGED lockFreeVars

\* async with self.lock, exit
LockRelease(t) ==
    /\ StepOf(t) = "release"
    /\ lock' = Unlocked
    /\ Advance(t)
    /\ UNCHANGED lockFreeVars

\* the awaited container.run() or container.kill() returns or raises
LockResume(t) ==
    /\ StepOf(t) \in Suspensions
    /\ Advance(t)
    /\ UNCHANGED <<lock, lockFreeVars>>

\* the operation returns or raises
LockReturn(t) ==
    /\ StepOf(t) = "return"
    /\ lockOps' = [lockOps EXCEPT ![t] = NoOp]
    /\ UNCHANGED <<lock, lockFreeVars>>

LockNext ==
    \/ \E t \in LockTasks, op \in LockingOps, found \in BOOLEAN :
          LockCall(t, op, found)
    \/ \E t \in LockTasks : LockAcquire(t)
    \/ \E t \in LockTasks : LockRelease(t)
    \/ \E t \in LockTasks : LockResume(t)
    \/ \E t \in LockTasks : LockReturn(t)

SpecLock == Init /\ [][LockNext]_vars

\* task t can take its next step
CanStep(t) ==
    \/ StepOf(t) \in Suspensions \cup {"release", "return"}
    \/ StepOf(t) = "acquire" /\ lock = Unlocked

\* C38: a task that holds the registry mutex is never about to acquire it
\* again, is never suspended in container.run() or container.kill() and
\* never returns with it; and whenever a task is inside an operation some
\* task can take a step: no interleaving deadlocks on the mutex
C38_NoNestedNoDeadlock ==
    /\ \A t \in LockTasks :
          lock = t => StepOf(t) \notin Suspensions \cup {"acquire", "return", ""}
    /\ (\E t \in LockTasks : lockOps[t] # NoOp)
          => \E t \in LockTasks : CanStep(t)

\* one task holds the mutex inside the section of destroy_container while
\* another waits to enter get_container
C38_Witness ==
    \E t, u \in LockTasks :
        /\ lock = t
        /\ lockOps[t].op = "destroy_container"
        /\ lockOps[u].op = "get_container"
        /\ StepOf(u) = "acquire"

\* ---------------------------------------------------------------- C39
\* container.kill() has been called on the container of id
KillStarted(id) == killCount[id] > 0

\* what an observer can still read of id: its handle, its info record, an
\* execution record it owns
Visible(id) ==
    \/ id \in containers
    \/ id \in DOMAIN container_info
    \/ \E e \in DOMAIN executions : executions[e].container_id = id

\* C39: destroy(id) removes the container record and every execution
\* record of id in one step, before the runtime kill is issued: once the
\* kill has started nothing of id can be read, and a step that removes
\* the handle removes the rest with it
C39_GoneBeforeKill ==
    /\ [](\A id \in ContainerIds : KillStarted(id) => ~Visible(id))
    /\ [][\A id \in containers : id \notin containers' => ~Visible(id)']_vars

\* the kill of the only container created, which owned an execution, is
\* awaited
C39_Witness ==
    \E k \in killing :
        /\ KillStarted(k.id)
        /\ nextContainerId = 2
        /\ nextExecutionId > 1
        /\ executions = <<>>

\* ---------------------------------------------------------------- C40
\* C40: the handle registry and the info registry hold the same ids
C40_SameKeys == containers = DOMAIN container_info

\* a container was destroyed while another is registered
C40_Witness ==
    /\ containers # {}
    /\ \E id \in ContainerIds : destroyLog[id] # {}
====
